---- MODULE Spec2Model ----
(***************************************************************************)
(* A model of the IR frontend loader (ngraph/frontend/ir/src/model.cpp):   *)
(* InputModelIR::convert and XmlDeserializer::parse_function / createNode  *)
(* / parseInputDescription / parseOutputDescription, run as a state        *)
(* machine over an XML document drawn from bounded sets.                   *)
(*                                                                         *)
(* The XML tree is a record: a function root is [layers, edges]; a <layer> *)
(* is a record of its attributes and children.  A parse_function call is a *)
(* frame on `stack`; the body of a sub-graph operator is parsed by a frame *)
(* pushed on top of the frame that is constructing the operator.           *)
(***************************************************************************)
EXTENDS Integers, Sequences, FiniteSets, TLC

VARIABLES
    device,        \* an ocl_device under construction: the cl::Device and its members
    parser,        \* a getParameters call on one attribute string, and what parsePort makes of it
    visit_order,   \* which of "body" and the descriptions a sub-graph operator visits first
    m_root,        \* InputModelIR::m_root: the <net> element
    m_weights,     \* InputModelIR::m_weights: byteSize() of the weights blob
    m_exts,        \* InputModelIR::m_exts: the extensions, in order
    m_opsets,      \* convert()'s `opsets`: name -> opset
    m_variables,   \* convert()'s `variables`: variable_id -> Variable instance (0: none)
    n_variables,   \* number of Variable objects made so far (the next instance is n+1)
    stack,         \* the active parse_function calls, outermost first
    result         \* where convert() stands: created, running, ok, error

vars == <<device, parser, visit_order, m_root, m_weights, m_exts, m_opsets, m_variables, n_variables, stack, result>>

----------------------------------------------------------------------------
(* Bounds of the model.                                                    *)

\* the longest <edges> list of a drawn function
MaxEdges == 3

----------------------------------------------------------------------------
(* Small helpers.                                                          *)

Last(s) == s[Len(s)]

Front(s) == SubSeq(s, 1, Len(s) - 1)

SetTop(stk, f) == [stk EXCEPT ![Len(stk)] = f]

Range(s) == {s[x] : x \in DOMAIN s}

\* std::map / std::unordered_map lookups on a TLA+ function
Has(m, key) == key \in DOMAIN m

\* m[key] = v  (operator[] assignment: inserts or overwrites)
Put(m, key, v) == (key :> v) @@ m

\* m.insert({key, v}) / m.emplace(key, v): keeps an existing entry
Insert(m, key, v) == IF Has(m, key) THEN m ELSE Put(m, key, v)

EmptyMap == <<>>

----------------------------------------------------------------------------
(* GenericLayerParams                                                      *)

\* getRealInputPortId / getRealOutputPortId throw when the id is not declared
NotFound == -1

RECURSIVE RealPortId(_, _, _)
RealPortId(ports, id, real_id) ==
    IF real_id >= Len(ports) THEN NotFound
    ELSE IF ports[real_id + 1] = id THEN real_id
    ELSE RealPortId(ports, id, real_id + 1)

\* the declared id taken for the position
DeclaredInputPortId(params, id) ==
    IF RealPortId(params.inputPorts, id, 0) = NotFound THEN NotFound ELSE id

getRealInputPortId(params, id) == RealPortId(params.inputPorts, id, 0)

getRealOutputPortId(params, id) == RealPortId(params.outputPorts, id, 0)

\* parseGenericParams: the attributes and ports of one <layer>
parseGenericParams(node) ==
    [layerId     |-> node.id,
     version     |-> node.version,
     type        |-> node.type,
     name        |-> node.name,
     outputPorts |-> node.output,
     inputPorts  |-> node.input]

\* what std::map::operator[] makes for a layer id that no <layer> carries
EmptyXml ==
    [id |-> 0, version |-> "", type |-> "", name |-> "", input |-> <<>>,
     output |-> <<>>, variable_id |-> "", body |-> <<>>,
     port_map |-> <<>>, back_edges |-> <<>>, data |-> <<>>]

DefaultNodeParams == [xml |-> EmptyXml, params |-> parseGenericParams(EmptyXml)]

ParamsAt(f, id) == IF Has(f.params, id) THEN f.params[id] ELSE DefaultNodeParams

----------------------------------------------------------------------------
(* parse_function: one frame per call                                      *)

EmptyIoMap == [inputs |-> EmptyMap, outputs |-> EmptyMap]

\* The locals of parse_function at its entry, with the members of the
\* XmlDeserializer that runs it (io_map, m_use_framework_node).
NewFrame(root, use_framework_node) ==
    [root      |-> root,
     pc        |-> "layers",
     i         |-> 1,
     params    |-> EmptyMap,
     outputs   |-> <<>>,
     opName    |-> {},
     edges     |-> EmptyMap,
     used      |-> {},
     order     |-> <<>>,
     dfs       |-> <<>>,
     oi        |-> 1,
     k         |-> 1,
     id_to_node |-> EmptyMap,
     parameters |-> <<>>,
     results    |-> <<>>,
     sinks      |-> <<>>,
     all        |-> <<>>,
     variable_id_to_read_value |-> EmptyMap,
     io_map     |-> EmptyIoMap,
     pending    |-> <<>>,
     m_use_framework_node |-> use_framework_node]

Running == result.status = "running" /\ stack # <<>>

Top == Last(stack)

Throw(what) == result' = [status |-> "error", what |-> what]

\* One iteration of the loop over <layers>/<layer>; after the last layer the
\* function goes on to the edges.
ParseLayer ==
    /\ Running
    /\ Top.pc = "layers"
    /\ LET f == Top
           node == f.root.layers[f.i]
           node_param == parseGenericParams(node)
       IN  IF f.i > Len(f.root.layers)
           THEN /\ stack' = SetTop(stack, [f EXCEPT !.pc = "edges"])
                /\ UNCHANGED result
           ELSE IF node_param.name \in f.opName /\ node_param.type # "Result"
           THEN /\ Throw("name is not unique")
                /\ UNCHANGED stack
           ELSE /\ stack' = SetTop(stack,
                     [f EXCEPT !.opName = @ \cup {node_param.name},
                               !.params = Put(@, node_param.layerId,
                                              [xml |-> node, params |-> node_param]),
                               !.outputs = IF node_param.type \in {"Result", "Assign"}
                                           THEN Append(@, node_param.layerId) ELSE @,
                               !.i = @ + 1])
                /\ UNCHANGED result
    /\ UNCHANGED <<device, parser, visit_order, m_root, m_weights, m_exts, m_opsets, m_variables, n_variables>>

\* The loop over <edges>/<edge>: edges[toLayer].push_back({fromLayer, fromPort, toPort})
RECURSIVE ReadEdgeList(_, _, _)
ReadEdgeList(xml_edges, j, edges) ==
    IF j > Len(xml_edges) THEN edges
    ELSE LET _ec == xml_edges[j]
             e == [fromLayerId |-> _ec.from_layer, fromPortId |-> _ec.from_port,
                   toPortId |-> _ec.to_port]
             old == IF Has(edges, _ec.to_layer) THEN edges[_ec.to_layer] ELSE <<>>
         IN  ReadEdgeList(xml_edges, j + 1, Put(edges, _ec.to_layer, Append(old, e)))

ReadEdges ==
    /\ Running
    /\ Top.pc = "edges"
    /\ stack' = SetTop(stack, [Top EXCEPT !.edges = ReadEdgeList(Top.root.edges, 1, EmptyMap),
                                          !.pc = "dfs"])
    /\ UNCHANGED <<device, parser, visit_order, m_root, m_weights, m_exts, m_opsets, m_variables, n_variables, result>>

\* a dfs(id) that expands an id however often it is called on it
DfsCallAgain(f, id) ==
    [f EXCEPT !.used = @ \cup {id},
              !.edges = Insert(@, id, <<>>),
              !.dfs = Append(@, [id |-> id, j |-> 1])]

\* a dfs(id) that marks the id and skips the loop over edges[id]
DfsCallShallow(f, id) ==
    IF id \in f.used THEN f
    ELSE [f EXCEPT !.used = @ \cup {id},
                   !.edges = Insert(@, id, <<>>),
                   !.dfs = Append(@, [id |-> id,
                                      j |-> Len(Insert(f.edges, id, <<>>)[id]) + 1])]

\* A call dfs(id): returns at once on a used id; otherwise marks it and starts
\* the loop over edges[id] (operator[] makes the entry when there is none).
DfsCall(f, id) ==
    IF id \in f.used THEN f
    ELSE [f EXCEPT !.used = @ \cup {id},
                   !.edges = Insert(@, id, <<>>),
                   !.dfs = Append(@, [id |-> id, j |-> 1])]

\* One step of std::for_each(outputs, dfs): the next root, the next edge of the
\* call on top, or the end of that call (order.push_back).
DfsStep ==
    /\ Running
    /\ Top.pc = "dfs"
    /\ LET f == Top
       IN  IF f.dfs = <<>>
           THEN IF f.oi > Len(f.outputs)
                THEN stack' = SetTop(stack, [f EXCEPT !.pc = "nodes"])
                ELSE stack' = SetTop(stack, DfsCall([f EXCEPT !.oi = @ + 1], f.outputs[f.oi]))
           ELSE LET call == Last(f.dfs)
                    es == f.edges[call.id]
                IN  IF call.j <= Len(es)
                    THEN stack' = SetTop(stack,
                            DfsCall([f EXCEPT !.dfs[Len(f.dfs)].j = @ + 1],
                                    es[call.j].fromLayerId))
                    ELSE stack' = SetTop(stack,
                            [f EXCEPT !.dfs = Front(@), !.order = Append(@, call.id)])
    /\ UNCHANGED <<device, parser, visit_order, m_root, m_weights, m_exts, m_opsets, m_variables, n_variables, result>>

----------------------------------------------------------------------------
(* Wiring the inputs of one layer (parse_function, the loop over its edges) *)

\* a default-constructed ngraph::Output: no node
NullOutput == [node |-> 0, index |-> 0]

\* a wiring loop that leaves the slot of an edge from a layer without a node
\* unbound and goes on
RECURSIVE GatherInputsSkipping(_, _, _, _, _)
GatherInputsSkipping(f, p, es, j, inputs) ==
    IF j > Len(es) THEN [ok |-> TRUE, what |-> "", inputs |-> inputs]
    ELSE LET e == es[j]
             input_node == IF Has(f.id_to_node, e.fromLayerId)
                           THEN f.id_to_node[e.fromLayerId] ELSE 0
             p_output == ParamsAt(f, e.fromLayerId).params
             realInputPortId == getRealInputPortId(p.params, e.toPortId)
             realOutputPortId == getRealOutputPortId(p_output, e.fromPortId)
         IN  IF input_node = 0
             THEN GatherInputsSkipping(f, p, es, j + 1, inputs)
             ELSE IF realInputPortId = NotFound
             THEN [ok |-> FALSE, what |-> "no input port", inputs |-> inputs]
             ELSE IF realInputPortId >= Len(inputs)
             THEN [ok |-> FALSE, what |-> "layer is inconsistent", inputs |-> inputs]
             ELSE IF realOutputPortId = NotFound
             THEN [ok |-> FALSE, what |-> "no output port", inputs |-> inputs]
             ELSE GatherInputsSkipping(f, p, es, j + 1,
                     [inputs EXCEPT ![realInputPortId + 1] =
                         [node |-> input_node, index |-> realOutputPortId]])

\* The loop `for (auto& e : edgeIt->second)`.  A node is named by its place in
\* func_nodes.all; id_to_node[id] is 0 while layer id has no node.
RECURSIVE GatherInputs(_, _, _, _, _)
GatherInputs(f, p, es, j, inputs) ==
    IF j > Len(es) THEN [ok |-> TRUE, what |-> "", inputs |-> inputs]
    ELSE LET e == es[j]
             input_node == IF Has(f.id_to_node, e.fromLayerId)
                           THEN f.id_to_node[e.fromLayerId] ELSE 0
             p_output == ParamsAt(f, e.fromLayerId).params
             realInputPortId == getRealInputPortId(p.params, e.toPortId)
             realOutputPortId == getRealOutputPortId(p_output, e.fromPortId)
         IN  IF input_node = 0
             THEN [ok |-> FALSE, what |-> "node not in graph", inputs |-> inputs]
             ELSE IF realInputPortId = NotFound
             THEN [ok |-> FALSE, what |-> "no input port", inputs |-> inputs]
             ELSE IF realInputPortId >= Len(inputs)
             THEN [ok |-> FALSE, what |-> "layer is inconsistent", inputs |-> inputs]
             ELSE IF realOutputPortId = NotFound
             THEN [ok |-> FALSE, what |-> "no output port", inputs |-> inputs]
             ELSE GatherInputs(f, p, es, j + 1,
                     [inputs EXCEPT ![realInputPortId + 1] =
                         [node |-> input_node, index |-> realOutputPortId]])

----------------------------------------------------------------------------
(* createNode: the opset and the operator                                  *)

\* m_opsets.end()
End == "<end>"

find(opsets, name) == IF Has(opsets, name) THEN name ELSE End

experimental_ops_added_to_opset ==
    {"ExperimentalDetectronDetectionOutput",
     "ExperimentalDetectronGenerateProposalsSingleImage",
     "ExperimentalDetectronPriorGridGenerator",
     "ExperimentalDetectronROIFeatureExtractor",
     "ExperimentalDetectronTopKROIs",
     "GRUCell", "RNNCell", "Proposal"}

\* std::tolower over a type name, on the names the drawn documents use
ToLower(t) == IF t = "MVN" THEN "mvn" ELSE t

\* OpSet::create_insensitive: the operator of that name whatever its case, "" (null) if none
create_insensitive(opset, type) ==
    IF \E o \in opset.ops : ToLower(o) = ToLower(type)
    THEN CHOOSE o \in opset.ops : ToLower(o) = ToLower(type)
    ELSE ""

\* the lookup left as m_opsets.find(params.version) made it
KeepVersionOpset(opsets, params, opsetIt) == opsetIt

\* the experimental and cell operators that moved into opset6 are looked up there
ExperimentalOpset(opsets, params, opsetIt) ==
    IF /\ params.type \in experimental_ops_added_to_opset
       /\ params.version \in {"experimental", "extension"}
    THEN find(opsets, "opset6") ELSE opsetIt

\* The opset lookup of createNode and the operator it creates:
\*   [kind |-> "node", opset, type]  an operator `type` made by m_opsets[opset]
\*   [kind |-> "none"]               no opset found (ngraphNode stays null)
\*   [kind |-> "throw", what]
ResolveOpset(opsets, params) ==
    LET opsetIt0 == find(opsets, params.version)
        opsetIt1 == ExperimentalOpset(opsets, params, opsetIt0)
        type == IF params.type = "Const" THEN "Constant" ELSE params.type
        remap == params.version = "opset1" /\ type \in {"MVN", "ROIPooling", "ReorgYolo"}
        opsetIt2 == IF remap THEN find(opsets, "opset2") ELSE opsetIt1
    IN  IF opsetIt1 = End THEN [kind |-> "none"]
        ELSE IF opsetIt2 = End THEN [kind |-> "throw", what |-> "unsupported opset"]
        ELSE IF create_insensitive(opsets[opsetIt2], type) = ""
        THEN [kind |-> "throw", what |-> "opset doesn't contain the operation"]
        ELSE [kind |-> "node", opset |-> opsetIt2,
              type |-> create_insensitive(opsets[opsetIt2], type)]

\* The class of the operator the opsets make under a type name, as
\* parse_function's dynamic casts see it.
NodeClass(type) ==
    CASE type = "Parameter" -> "Parameter"
      [] type = "Result" -> "Result"
      [] type = "Assign" -> "Assign"
      [] type = "ReadValue" -> "ReadValue"
      [] type \in {"Loop", "TensorIterator"} -> "SubGraphOp"
      [] OTHER -> "Op"

\* createNode without its check of the inputs
InputsNotChecked(inputs) == TRUE

\* "Check that inputs are correctly defined"
InputsDefined(inputs) == \A x \in DOMAIN inputs : inputs[x].node # 0

\* constructor_validate_and_infer_types, the operator's own check, for the one
\* operator whose check the documents drawn can fail: a Result takes one input
ValidateAndInferTypes(cls, inputs) == cls = "Result" => Len(inputs) = 1

\* a Variable reference that makes a Variable on every visit
VisitVariableAlwaysMakes(variables, n, variable_id) ==
    [variables |-> Put(variables, variable_id, n + 1), n |-> n + 1, variable |-> n + 1]

\* on_adapter for a Variable reference: the Variable of variable_id, made on
\* first use.  [variables, n, variable]
VisitVariable(variables, n, variable_id) ==
    IF ~Has(variables, variable_id)
    THEN [variables |-> Put(variables, variable_id, n + 1), n |-> n + 1, variable |-> n + 1]
    ELSE [variables |-> variables, n |-> n, variable |-> variables[variable_id]]

HasVariable(cls, xml) == cls \in {"ReadValue", "Assign"} /\ xml.variable_id # ""

\* The node createNode returns for a layer, before its sub-graph attributes.
MakeNode(params, cls, type, opset, inputs, variable_id, variable) ==
    [id |-> params.layerId, friendly_name |-> params.name, cls |-> cls, type |-> type,
     opset |-> opset, inputs |-> inputs, variable |-> variable,
     variable_id |-> variable_id, control_dependencies |-> {},
     body |-> <<>>, input_descriptions |-> <<>>, output_descriptions |-> <<>>,
     special_body_ports |-> <<>>, buffer |-> <<>>]

\* a FrameworkNode for every layer that no opset made
FallsBackAlways(use_framework_node, r) == r.kind = "none"

\* "if (!ngraphNode && m_use_framework_node)"
FallsBackToFrameworkNode(use_framework_node, r) == r.kind = "none" /\ use_framework_node

\* createNode up to visit_attributes:
\*   [kind |-> "throw", what] or [kind |-> "node" | "framework", cls, type, opset]
CreateNode(opsets, use_framework_node, inputs, params) ==
    LET r == ResolveOpset(opsets, params)
    IN  IF ~InputsDefined(inputs) THEN [kind |-> "throw", what |-> "incorrect input"]
        ELSE IF r.kind = "throw" THEN r
        ELSE IF r.kind = "node"
        THEN IF ~ValidateAndInferTypes(NodeClass(r.type), inputs)
             THEN [kind |-> "throw", what |-> "validation failed"]
             ELSE [kind |-> "node", cls |-> NodeClass(r.type), type |-> r.type,
                   opset |-> r.opset]
        ELSE IF FallsBackToFrameworkNode(use_framework_node, r)
        THEN [kind |-> "framework", cls |-> "FrameworkNode", type |-> params.type,
              opset |-> params.version]
        ELSE [kind |-> "throw", what |-> "unsupported opset"]

\* Register with every Result put in front of the results gathered so far
RegisterResultsInFront(f, layer_id, node) ==
    LET at == Len(f.all) + 1
    IN  [f EXCEPT
          !.id_to_node = Put(@, layer_id, at),
          !.io_map = [inputs  |-> IF node.cls = "Parameter"
                                  THEN Insert(@.inputs, layer_id, Len(f.parameters))
                                  ELSE @.inputs,
                      outputs |-> IF node.cls = "Result"
                                  THEN Insert(@.outputs, layer_id, Len(f.results))
                                  ELSE @.outputs],
          !.parameters = IF node.cls = "Parameter" THEN Append(@, at) ELSE @,
          !.results = IF node.cls = "Result" THEN <<at>> \o @ ELSE @,
          !.sinks = IF node.cls = "Assign" THEN Append(@, at) ELSE @,
          !.variable_id_to_read_value =
                IF node.cls = "ReadValue" THEN Put(@, node.variable_id, at) ELSE @,
          !.all = Append(@, node),
          !.k = @ + 1]

\* parse_function after createNode: the node goes into id_to_node and func_nodes
Register(f, layer_id, node) ==
    LET at == Len(f.all) + 1
    IN  [f EXCEPT
          !.id_to_node = Put(@, layer_id, at),
          !.io_map = [inputs  |-> IF node.cls = "Parameter"
                                  THEN Insert(@.inputs, layer_id, Len(f.parameters))
                                  ELSE @.inputs,
                      outputs |-> IF node.cls = "Result"
                                  THEN Insert(@.outputs, layer_id, Len(f.results))
                                  ELSE @.outputs],
          !.parameters = IF node.cls = "Parameter" THEN Append(@, at) ELSE @,
          !.results = IF node.cls = "Result" THEN Append(@, at) ELSE @,
          !.sinks = IF node.cls = "Assign" THEN Append(@, at) ELSE @,
          !.variable_id_to_read_value =
                IF node.cls = "ReadValue" THEN Put(@, node.variable_id, at) ELSE @,
          !.all = Append(@, node),
          !.k = @ + 1]

----------------------------------------------------------------------------
(* size_t arithmetic and the value buffer of a Const                       *)

\* A size_t (64 bits) is four 16-bit limbs, the least significant first.
Base == 65536

SizeOf(n) == <<n, 0, 0, 0>>

\* 2^64 - n, for 0 < n < 2^16
SizeMaxLess(n) == <<Base - n, Base - 1, Base - 1, Base - 1>>

RECURSIVE AddLimbs(_, _, _, _, _)
AddLimbs(a, b, x, carry, sum) ==
    IF x > Len(a) THEN [carry |-> carry, sum |-> sum]
    ELSE AddLimbs(a, b, x + 1, (a[x] + b[x] + carry) \div Base,
                  Append(sum, (a[x] + b[x] + carry) % Base))

\* a + b in size_t: the sum modulo 2^64
SizeAdd(a, b) == AddLimbs(a, b, 1, 0, <<>>).sum

\* a < b in size_t
SizeLess(a, b) ==
    \E x \in DOMAIN a : a[x] < b[x] /\ \A y \in (x + 1)..Len(a) : a[y] = b[y]

RECURSIVE shape_size(_)
shape_size(shape) == IF shape = <<>> THEN 1 ELSE shape[1] * shape_size(Tail(shape))

\* element::Type::bitwidth of the element types the documents use
bitwidth(el_type) == IF el_type = "u8" THEN 8 ELSE 32

\* "if (length < offset + size)"
RangeExceedsBlob(length, offset, size) == SizeLess(length, SizeAdd(offset, size))

\* on_adapter for the AlignedBuffer attribute "value" of a Constant made
\* from a <layer> without a "value" string attribute in its <data>:
\* [ok, what, buffer], the buffer a sequence of no or one [offset, size].
VisitValue(xml, length) ==
    LET dn == xml.data[1]
        needed == (shape_size(dn.shape[1]) * bitwidth(dn.element_type[1]) + 7) \div 8
        none == [ok |-> TRUE, what |-> "", buffer |-> <<>>]
    IN  IF xml.data = <<>>
        THEN [ok |-> FALSE, what |-> "no attributes defined", buffer |-> <<>>]
        ELSE IF xml.type # "Const" THEN none
        ELSE IF dn.element_type = <<>> \/ dn.shape = <<>> THEN none
        ELSE IF length = SizeOf(0)
        THEN [ok |-> FALSE, what |-> "empty weights", buffer |-> <<>>]
        ELSE IF RangeExceedsBlob(length, dn.offset, dn.size)
        THEN [ok |-> FALSE, what |-> "incorrect weights", buffer |-> <<>>]
        ELSE IF SizeLess(dn.size, SizeOf(needed))
        THEN [ok |-> FALSE, what |-> "attribute and shape size are inconsistent",
              buffer |-> <<>>]
        ELSE [ok |-> TRUE, what |-> "",
              buffer |-> <<[offset |-> dn.offset, size |-> dn.size]>>]

\* the bytes [offset, offset + size) are bytes of the blob
InsideBlob(length, buffer) ==
    /\ AddLimbs(buffer.offset, buffer.size, 1, 0, <<>>).carry = 0
    /\ ~SizeLess(length, SizeAdd(buffer.offset, buffer.size))

\* What `cbuffer().as<char*>() + offset` and the SharedBuffer made of it can
\* come to: inside the blob the buffer is built; outside it the pointer
\* arithmetic is undefined and the build either carries on or faults.
BufferOutcomes(length, buffer) ==
    IF buffer = <<>> \/ InsideBlob(length, buffer[1]) THEN {"built"} ELSE {"built", "fault"}

----------------------------------------------------------------------------
(* Sub-graph operators: <port_map>, <back_edges>, <body>                   *)

\* uint64_t(-1): the index updated_io_map gives a body Parameter/Result that
\* the body's parse_function has not numbered
Unconnected == -1

\* XMLParseUtils::Get...Attr(node, name, default) on an optional attribute,
\* held as a sequence of no or one value
GetAttr(attr, default) == IF attr = <<>> THEN default ELSE attr[1]

\* an updated_io_map that marks every Parameter/Result layer of the body as
\* unconnected, numbered or not
ExtendIoMapOverwriting(layers, j, io) ==
    [inputs |-> [id \in {layers[x].id : x \in {y \in DOMAIN layers : layers[y].type = "Parameter"}}
                    |-> Unconnected] @@ io.inputs,
     outputs |-> [id \in {layers[x].id : x \in {y \in DOMAIN layers : layers[y].type = "Result"}}
                    |-> Unconnected] @@ io.outputs]

RECURSIVE ExtendIoMap(_, _, _)
ExtendIoMap(layers, j, io) ==
    IF j > Len(layers) THEN io
    ELSE LET layer == layers[j]
         IN  ExtendIoMap(layers, j + 1,
               IF layer.type = "Parameter"
               THEN [io EXCEPT !.inputs = Insert(@, layer.id, Unconnected)]
               ELSE IF layer.type = "Result"
               THEN [io EXCEPT !.outputs = Insert(@, layer.id, Unconnected)]
               ELSE io)

\* updated_io_map: io_map with every Parameter/Result layer of the body that
\* it lacks added as unconnected.  The caller has checked that <body> exists.
updated_io_map(node, io_map) == ExtendIoMap(node.body[1].layers, 1, io_map)

\* Order of two external_port_id values as keys of std::map<uint64_t, ...>:
\* the signed value converted to unsigned 64 bits, so every negative id
\* (2^64 + id) comes after every non-negative one.
U64Less(a, b) ==
    IF (a < 0) = (b < 0) THEN a < b ELSE b < 0

\* Order of two keys of std::map<int64_t, ...>
I64Less(a, b) == a < b

\* map.emplace(external_port_id, element) over the elements in document order
RECURSIVE EmplaceAll(_, _, _)
EmplaceAll(elems, j, map) ==
    IF j > Len(elems) THEN map
    ELSE EmplaceAll(elems, j + 1, Insert(map, elems[j].external_port_id, elems[j]))

\* the first key of an ordered map, whose keys are uint64_t or int64_t
FirstKey(keys, unsigned) ==
    CHOOSE a \in keys : \A b \in keys \ {a} :
        IF unsigned THEN U64Less(a, b) ELSE I64Less(a, b)

\* the last <back_edges>/<edge> whose to-layer is the body parameter; 0 if none
RECURSIVE FindLastBackEdge(_, _, _)
FindLastBackEdge(back_edges, j, body_parameter_index) ==
    IF j > Len(back_edges) THEN 0
    ELSE IF FindLastBackEdge(back_edges, j + 1, body_parameter_index) # 0
    THEN FindLastBackEdge(back_edges, j + 1, body_parameter_index)
    ELSE IF back_edges[j].to_layer = body_parameter_index THEN j
    ELSE 0

\* the first <back_edges>/<edge> whose to-layer is the body parameter; 0 if none
RECURSIVE FindBackEdge(_, _, _)
FindBackEdge(back_edges, j, body_parameter_index) ==
    IF j > Len(back_edges) THEN 0
    ELSE IF back_edges[j].to_layer = body_parameter_index THEN j
    ELSE FindBackEdge(back_edges, j + 1, body_parameter_index)

\* The description made from one <port_map>/<input>, as a sequence of no or one
\* description; [ok |-> FALSE] when an .at() throws.
InputDescriptionOf(node, up_io_map, xml_input) ==
    LET ti_input_index == xml_input.external_port_id
        body_parameter_index == xml_input.internal_layer_id
        back == FindBackEdge(node.back_edges, 1, body_parameter_index)
    IN  IF xml_input.axis # <<>>
        THEN IF ~Has(up_io_map.inputs, body_parameter_index) THEN [ok |-> FALSE, value |-> <<>>]
             ELSE [ok |-> TRUE, value |-> <<
                    [kind |-> "Slice", input_index |-> ti_input_index,
                     body_parameter_index |-> up_io_map.inputs[body_parameter_index],
                     start |-> GetAttr(xml_input.start, 0),
                     stride |-> GetAttr(xml_input.stride, 1),
                     part_size |-> GetAttr(xml_input.part_size, 1),
                     end |-> GetAttr(xml_input.end, -1),
                     axis |-> xml_input.axis[1]] >>]
        ELSE IF back # 0
        THEN IF \/ ~Has(up_io_map.inputs, body_parameter_index)
                \/ ~Has(up_io_map.outputs, node.back_edges[back].from_layer)
             THEN [ok |-> FALSE, value |-> <<>>]
             ELSE [ok |-> TRUE, value |-> <<
                    [kind |-> "Merged", input_index |-> ti_input_index,
                     body_parameter_index |-> up_io_map.inputs[body_parameter_index],
                     body_value_index |-> up_io_map.outputs[node.back_edges[back].from_layer]] >>]
        ELSE IF ti_input_index >= 0
        THEN IF ~Has(up_io_map.inputs, body_parameter_index) THEN [ok |-> FALSE, value |-> <<>>]
             ELSE [ok |-> TRUE, value |-> <<
                    [kind |-> "Invariant", input_index |-> ti_input_index,
                     body_parameter_index |-> up_io_map.inputs[body_parameter_index]] >>]
        ELSE [ok |-> TRUE, value |-> <<>>]

RECURSIVE InputDescriptionLoop(_, _, _, _, _)
InputDescriptionLoop(node, up_io_map, input_map, keys, inputs) ==
    IF keys = {} THEN [ok |-> TRUE, value |-> inputs]
    ELSE LET key == FirstKey(keys, TRUE)
             d == InputDescriptionOf(node, up_io_map, input_map[key])
         IN  IF ~d.ok THEN d
             ELSE InputDescriptionLoop(node, up_io_map, input_map, keys \ {key},
                                       inputs \o d.value)

parseInputDescription(node, io_map) ==
    LET up_io_map == updated_io_map(node, io_map)
        input_map == EmplaceAll(node.port_map[1].input, 1, EmptyMap)
    IN  InputDescriptionLoop(node, up_io_map, input_map, DOMAIN input_map, <<>>)

\* every <output> taken as connected to an output of the operator
IsConnectedAlways(xml_output) == TRUE

\* "if external_port_id < 0 it means that this body result isn't connected to
\* the Loop output"
IsConnected(xml_output) == xml_output.external_port_id >= 0

\* The description made from one <port_map>/<output> at the running
\* output_number, as for InputDescriptionOf.
OutputDescriptionOf(up_io_map, xml_output, output_number) ==
    LET body_result_index == xml_output.internal_layer_id
    IN  IF IsConnected(xml_output)
        THEN IF ~Has(up_io_map.outputs, body_result_index) THEN [ok |-> FALSE, value |-> <<>>]
             ELSE IF xml_output.axis # <<>>
             THEN [ok |-> TRUE, value |-> <<
                    [kind |-> "Concat",
                     body_value_index |-> up_io_map.outputs[body_result_index],
                     output_index |-> output_number,
                     start |-> GetAttr(xml_output.start, 0),
                     stride |-> GetAttr(xml_output.stride, 1),
                     part_size |-> GetAttr(xml_output.part_size, 1),
                     end |-> GetAttr(xml_output.end, -1),
                     axis |-> xml_output.axis[1]] >>]
             ELSE [ok |-> TRUE, value |-> <<
                    [kind |-> "Body",
                     body_value_index |-> up_io_map.outputs[body_result_index],
                     output_index |-> output_number,
                     iteration |-> -1] >>]
        ELSE [ok |-> TRUE, value |-> <<>>]

RECURSIVE OutputDescriptionLoop(_, _, _, _, _)
OutputDescriptionLoop(up_io_map, output_map, keys, output_number, outputs) ==
    IF keys = {} THEN [ok |-> TRUE, value |-> outputs]
    ELSE LET key == FirstKey(keys, FALSE)
             d == OutputDescriptionOf(up_io_map, output_map[key], output_number)
         IN  IF ~d.ok THEN d
             ELSE OutputDescriptionLoop(up_io_map, output_map, keys \ {key},
                                        output_number + Len(d.value), outputs \o d.value)

parseOutputDescription(node, io_map) ==
    LET up_io_map == updated_io_map(node, io_map)
        output_map == EmplaceAll(node.port_map[1].output, 1, EmptyMap)
    IN  OutputDescriptionLoop(up_io_map, output_map, DOMAIN output_map, 0, <<>>)

\* The two loops of parsePurposeAttribute: the index of the last port, in key
\* order, that carries the purpose; -2 when its .at() throws.
RECURSIVE PurposeLoop(_, _, _, _, _, _)
PurposeLoop(io, map, keys, unsigned, purpose, idx) ==
    IF keys = {} THEN idx
    ELSE LET key == FirstKey(keys, unsigned)
             x == map[key]
         IN  IF x.purpose = purpose
             THEN IF ~Has(io, x.internal_layer_id) THEN -2
                  ELSE PurposeLoop(io, map, keys \ {key}, unsigned, purpose, io[x.internal_layer_id])
             ELSE PurposeLoop(io, map, keys \ {key}, unsigned, purpose, idx)

parsePurposeAttribute(node, io_map) ==
    LET up_io_map == updated_io_map(node, io_map)
        input_map == EmplaceAll(node.port_map[1].input, 1, EmptyMap)
        output_map == EmplaceAll(node.port_map[1].output, 1, EmptyMap)
        cur == PurposeLoop(up_io_map.inputs, input_map, DOMAIN input_map, TRUE,
                           "current_iteration", -1)
        cond == PurposeLoop(up_io_map.outputs, output_map, DOMAIN output_map, FALSE,
                            "execution_condition", -1)
    IN  IF up_io_map.inputs = EmptyMap /\ up_io_map.outputs = EmptyMap
        THEN [ok |-> FALSE, value |-> <<>>]
        ELSE IF cur = -2 \/ cond = -2 THEN [ok |-> FALSE, value |-> <<>>]
        ELSE [ok |-> TRUE,
              value |-> <<[current_iteration_input_idx |-> cur,
                           body_condition_output_idx |-> cond]>>]

\* on_adapter(ValueAccessor<void>) for the three sub-graph attributes of a
\* node whose body the visitor has parsed (its io_map is the body's):
\* the node with its descriptions, or [ok |-> FALSE].
VisitSubGraphAttributes(node, xml, io_map) ==
    LET ins == parseInputDescription(xml, io_map)
        outs == parseOutputDescription(xml, io_map)
        ports == IF node.type = "Loop" THEN parsePurposeAttribute(xml, io_map)
                 ELSE [ok |-> TRUE, value |-> <<>>]
    IN  IF xml.port_map = <<>> THEN [ok |-> TRUE, node |-> node]
        ELSE IF ~ins.ok \/ ~outs.ok \/ ~ports.ok THEN [ok |-> FALSE, node |-> node]
        ELSE [ok |-> TRUE,
              node |-> [node EXCEPT !.input_descriptions = ins.value,
                                    !.output_descriptions = outs.value,
                                    !.special_body_ports = ports.value]]

----------------------------------------------------------------------------
(* InputModelIR::convert                                                   *)

BaseOps == {"Parameter", "Result", "Constant", "Add", "Split", "TensorIterator"}

Opset2Ops == BaseOps \cup {"MVN", "ROIPooling", "ReorgYolo"}

Opset3Ops == Opset2Ops \cup {"ReadValue", "Assign", "GRUCell"}

Opset6Ops == Opset3Ops \cup {"Loop", "ExperimentalDetectronTopKROIs"}

\* "Load default opsets": the operators are those the drawn documents use
BuiltinOpsets ==
    [name \in {"opset1", "opset2", "opset3", "opset4", "opset5", "opset6", "opset7", "opset8"} |->
        [origin |-> "builtin",
         ops |-> CASE name = "opset1" -> BaseOps
                   [] name = "opset2" -> Opset2Ops
                   [] name \in {"opset3", "opset4"} -> Opset3Ops
                   [] name = "opset5" -> Opset3Ops \cup {"Loop"}
                   [] OTHER -> Opset6Ops]]

\* custom opsets loaded over whatever the registry holds
RECURSIVE LoadCustomOpsetsOverwriting(_, _, _)
LoadCustomOpsetsOverwriting(exts, j, opsets) ==
    IF j > Len(exts) THEN [ok |-> TRUE, opsets |-> opsets]
    ELSE LoadCustomOpsetsOverwriting(exts, j + 1,
            [name \in DOMAIN exts[j].opsets |->
                [origin |-> "extension", ops |-> exts[j].opsets[name]]] @@ opsets)

\* "Load custom opsets": [ok, opsets]; ok is FALSE when a name already exists
RECURSIVE LoadCustomOpsets(_, _, _)
LoadCustomOpsets(exts, j, opsets) ==
    IF j > Len(exts) THEN [ok |-> TRUE, opsets |-> opsets]
    ELSE IF \E name \in DOMAIN exts[j].opsets : Has(opsets, name)
    THEN [ok |-> FALSE, opsets |-> opsets]
    ELSE LoadCustomOpsets(exts, j + 1,
            [name \in DOMAIN exts[j].opsets |->
                [origin |-> "extension", ops |-> exts[j].opsets[name]]] @@ opsets)

\* the loop that looks for an extension described as "framework_node_ext"
UseFrameworkNode(exts) == \E j \in DOMAIN exts : exts[j].description = "framework_node_ext"

\* m_use_framework_node of an XmlDeserializer that createNode makes for a node
VisitorUseFrameworkNode == FALSE

\* convert() up to the call of parse_function on the <net> element
Convert ==
    /\ result.status = "created"
    /\ LET loaded == LoadCustomOpsets(m_exts, 1, BuiltinOpsets)
       IN  /\ m_opsets' = loaded.opsets
           /\ IF ~loaded.ok
              THEN /\ Throw("opset with the same name already exists")
                   /\ UNCHANGED stack
              ELSE /\ result' = [status |-> "running", what |-> ""]
                   /\ stack' = <<NewFrame(m_root, UseFrameworkNode(m_exts))>>
    /\ UNCHANGED <<device, parser, visit_order, m_root, m_weights, m_exts, m_variables, n_variables>>

----------------------------------------------------------------------------
(* parse_function: "Following topological order create nGraph operations"  *)

LayerId(f) == f.order[f.k]

\* the inputs of the layer at order[k], and what createNode makes of it
Gathered(f) ==
    LET es == f.edges[LayerId(f)]
    IN  GatherInputs(f, ParamsAt(f, LayerId(f)), es, 1, [x \in 1..Len(es) |-> NullOutput])

Created(f) ==
    CreateNode(m_opsets, f.m_use_framework_node, Gathered(f).inputs,
               ParamsAt(f, LayerId(f)).params)

\* createNode reaches the "body" attribute of a sub-graph operator that has a <body>
StartsBody(f) ==
    /\ Has(f.edges, LayerId(f))
    /\ Gathered(f).ok
    /\ Created(f).kind = "node"
    /\ Created(f).cls = "SubGraphOp"
    /\ ParamsAt(f, LayerId(f)).xml.body # <<>>

\* One iteration of the loop over `order` for a layer without a body to parse.
ConstructNode ==
    /\ Running
    /\ Top.pc = "nodes"
    /\ Top.k <= Len(Top.order)
    /\ ~StartsBody(Top)
    /\ LET f == Top
           p == ParamsAt(f, LayerId(f))
           g == Gathered(f)
           c == Created(f)
           v == IF HasVariable(c.cls, p.xml)
                THEN VisitVariable(m_variables, n_variables, p.xml.variable_id)
                ELSE [variables |-> m_variables, n |-> n_variables, variable |-> 0]
           w == IF c.kind = "node" /\ c.type = "Constant"
                THEN VisitValue(p.xml, m_weights)
                ELSE [ok |-> TRUE, what |-> "", buffer |-> <<>>]
           node == [MakeNode(p.params, c.cls, c.type, c.opset, g.inputs,
                             IF HasVariable(c.cls, p.xml) THEN p.xml.variable_id ELSE "",
                             v.variable)
                    EXCEPT !.buffer = w.buffer]
       IN  IF ~Has(f.edges, LayerId(f))
           THEN /\ stack' = SetTop(stack, [f EXCEPT !.k = @ + 1])
                /\ UNCHANGED <<m_variables, n_variables, result>>
           ELSE IF ~g.ok
           THEN /\ Throw(g.what)
                /\ UNCHANGED <<m_variables, n_variables, stack>>
           ELSE IF c.kind = "throw"
           THEN /\ Throw(c.what)
                /\ UNCHANGED <<m_variables, n_variables, stack>>
           ELSE IF c.cls = "SubGraphOp"
           THEN /\ Throw(IF visit_order = "descriptions_first" /\ p.xml.port_map # <<>>
                         THEN "Missing body part" ELSE "TensorIterator has no body")
                /\ UNCHANGED <<m_variables, n_variables, stack>>
           ELSE IF ~w.ok
           THEN /\ Throw(w.what)
                /\ UNCHANGED <<m_variables, n_variables, stack>>
           ELSE \E outcome \in BufferOutcomes(m_weights, w.buffer) :
                  IF outcome = "fault"
                  THEN /\ result' = [status |-> "fault", what |-> "pointer outside the blob"]
                       /\ UNCHANGED <<m_variables, n_variables, stack>>
                  ELSE /\ m_variables' = v.variables
                       /\ n_variables' = v.n
                       /\ stack' = SetTop(stack, Register(f, LayerId(f), node))
                       /\ UNCHANGED result
    /\ UNCHANGED <<device, parser, visit_order, m_root, m_weights, m_exts, m_opsets>>

\* The orders in which the visit_attributes of a sub-graph operator may call
\* the visitor: on_adapter("body") before or after the on_adapter calls for
\* the descriptions.
VisitOrders == {"body_first", "descriptions_first"}

\* createNode of a sub-graph operator up to on_adapter("body"): the visitor
\* made for the node calls parse_function on the <body>.  Descriptions
\* visited before the body are made from the io_map of the new visitor.
EnterBody ==
    /\ Running
    /\ Top.pc = "nodes"
    /\ Top.k <= Len(Top.order)
    /\ StartsBody(Top)
    /\ LET f == Top
           p == ParamsAt(f, LayerId(f))
           c == Created(f)
           node == MakeNode(p.params, c.cls, c.type, c.opset, Gathered(f).inputs, "", 0)
           early == VisitSubGraphAttributes(node, p.xml, EmptyIoMap)
       IN  IF visit_order = "descriptions_first" /\ ~early.ok
           THEN /\ Throw("out_of_range")
                /\ UNCHANGED stack
           ELSE /\ stack' = Append(SetTop(stack,
                                [f EXCEPT !.pending = <<IF visit_order = "descriptions_first"
                                                        THEN early.node ELSE node>>]),
                                NewFrame(p.xml.body[1], VisitorUseFrameworkNode))
                /\ UNCHANGED result
    /\ UNCHANGED <<device, parser, visit_order, m_root, m_weights, m_exts, m_opsets, m_variables, n_variables>>

\* The Function a finished parse_function returns, by the layer ids of its nodes
FunctionOf(f) ==
    [parameters |-> [x \in DOMAIN f.parameters |-> f.all[f.parameters[x]].id],
     results    |-> [x \in DOMAIN f.results |-> f.all[f.results[x]].id],
     sinks      |-> [x \in DOMAIN f.sinks |-> f.all[f.sinks[x]].id]]

\* The body's parse_function has returned: the visitor goes on to the
\* descriptions unless they were visited before, createNode returns and the
\* node is registered.
ExitBody ==
    /\ Running
    /\ Len(stack) >= 2
    /\ Top.pc = "done"
    /\ LET body == Top
           f == stack[Len(stack) - 1]
           p == ParamsAt(f, LayerId(f))
           node == [f.pending[1] EXCEPT !.body = <<FunctionOf(body)>>]
           v == IF visit_order = "descriptions_first"
                THEN [ok |-> TRUE, node |-> node]
                ELSE VisitSubGraphAttributes(node, p.xml, body.io_map)
       IN  IF ~v.ok
           THEN /\ Throw("out_of_range")
                /\ UNCHANGED stack
           ELSE /\ stack' = SetTop(Front(stack),
                                   Register([f EXCEPT !.pending = <<>>], LayerId(f), v.node))
                /\ UNCHANGED result
    /\ UNCHANGED <<device, parser, visit_order, m_root, m_weights, m_exts, m_opsets, m_variables, n_variables>>

\* The loop over the sinks after the Function is made, with every Assign
\* found in variable_id_to_read_value, whether it is there or not
ControlDependenciesNoThrow(f) ==
    LET rv == f.variable_id_to_read_value
        assigns == {s \in Range(f.sinks) : f.all[s].cls = "Assign"}
    IN  [ok |-> TRUE,
         all |-> [x \in DOMAIN f.all |->
                     IF x \in assigns /\ Has(rv, f.all[x].variable_id)
                     THEN [f.all[x] EXCEPT !.control_dependencies =
                                              @ \cup {rv[f.all[x].variable_id]}]
                     ELSE f.all[x]]]

\* The loop over the sinks after the Function is made: every Assign gets a
\* control dependency on variable_id_to_read_value.at(its variable id), and
\* at() throws when the id has no entry.  [ok, all]
ControlDependencies(f) ==
    LET rv == f.variable_id_to_read_value
        assigns == {s \in Range(f.sinks) : f.all[s].cls = "Assign"}
    IN  [ok |-> \A s \in assigns : Has(rv, f.all[s].variable_id),
         all |-> [x \in DOMAIN f.all |->
                     IF x \in assigns /\ Has(rv, f.all[x].variable_id)
                     THEN [f.all[x] EXCEPT !.control_dependencies =
                                              @ \cup {rv[f.all[x].variable_id]}]
                     ELSE f.all[x]]]

\* After the loop over `order`: the Function is made, the Assign sinks get
\* their control dependencies and parse_function returns.
Finish ==
    /\ Running
    /\ Top.pc = "nodes"
    /\ Top.k > Len(Top.order)
    /\ LET f == Top
           c == ControlDependencies(f)
       IN  IF ~c.ok
           THEN /\ Throw("out_of_range")
                /\ UNCHANGED stack
           ELSE /\ stack' = SetTop(stack, [f EXCEPT !.all = c.all, !.pc = "done"])
                /\ result' = IF Len(stack) = 1 THEN [status |-> "ok", what |-> ""]
                             ELSE result
    /\ UNCHANGED <<device, parser, visit_order, m_root, m_weights, m_exts, m_opsets, m_variables, n_variables>>

Next ==
    \/ Convert
    \/ ParseLayer
    \/ ReadEdges
    \/ DfsStep
    \/ ConstructNode
    \/ EnterBody
    \/ ExitBody
    \/ Finish

----------------------------------------------------------------------------
(* ocl_device: the capability record of an OpenCL device                   *)

\* the state of the loader, which the device probe leaves alone
loader == <<visit_order, m_root, m_weights, m_exts, m_opsets, m_variables, n_variables, stack, result>>

\* no ocl_device is being constructed
NoDevice == [pc |-> "none"]

\* const std::vector<int> unused_ids
unused_ids == {18693, 18694, 18695, 18696}

\* result after the enumeration: the ids of the display devices whose vendor
\* is 0x8086, in the order the system lists them
IntelIds(displays) ==
    LET intel == SelectSeq(displays, LAMBDA d : d.vendor = 32902)
    IN  [i \in 1..Len(intel) |-> intel[i].id]

\* driver_dev_id with the erase loop left out
driver_dev_id_keeping(dev) ==
    LET ids == IntelIds(dev.displays)
    IN  IF ids = <<>> THEN 0 ELSE ids[Len(ids)]

\* driver_dev_id: of the Intel display device ids the system lists, those not
\* in unused_ids; the last one, or 0 when none is left
driver_dev_id(dev) ==
    LET ids == SelectSeq(IntelIds(dev.displays), LAMBDA id : id \notin unused_ids)
    IN  IF ids = <<>> THEN 0 ELSE ids[Len(ids)]

\* std::string::find(word) != npos on the device names drawn
NameContains(dev_name, word) ==
    \/ word = "Gen12" /\ dev_name = "Intel(R) Gen12LP HD Graphics"
    \/ word = "Xe" /\ dev_name = "Intel(R) Iris(R) Xe Graphics"

\* extensions.find(name) != npos: the extension names drawn are not parts of
\* one another
Advertises(dev, name) == name \in dev.extensions

get_device_type(dev) == IF dev.unified_mem THEN "integrated_gpu" ELSE "discrete_gpu"

\* const std::vector<int> imad_ids
imad_ids ==
    {39488, 39497, 39513, 39641, 39520, 39528, 39536, 39544, 39551, 39672, 39616, 39625}

get_imad_support(dev) ==
    IF NameContains(dev.dev_name, "Gen12") \/ NameContains(dev.dev_name, "Xe") THEN TRUE
    ELSE IF get_device_type(dev) = "integrated_gpu"
    THEN IF driver_dev_id(dev) = 0 THEN FALSE
         ELSE driver_dev_id(dev) \in imad_ids
    ELSE TRUE

\* uint8_t expected[8]
expected == <<1, 3, 5, 7, 9, 11, 13, 15>>

\* The steps of the probe that can throw, in order; the kernel runs at "enqueue".
ProbeSteps == <<"context", "program", "build", "buffer", "kernel", "queue", "enqueue", "read">>

StepOf(name) == CHOOSE x \in DOMAIN ProbeSteps : ProbeSteps[x] = name

\* Does the probe get as far as running its kernel?
KernelRuns(probe) ==
    /\ probe.throws = "" \/ StepOf(probe.throws) > StepOf("enqueue")
    /\ probe.build = "CL_SUCCESS"

\* the probe with its result taken as read back right
is_local_block_io_supported_unread(probe) ==
    IF probe.throws # "" /\ StepOf(probe.throws) <= StepOf("build") THEN FALSE
    ELSE IF probe.build # "CL_SUCCESS" THEN FALSE
    ELSE IF probe.throws # "" THEN FALSE
    ELSE TRUE

\* is_local_block_io_supported: the try block returns false on a failed
\* build and on the first byte that differs; catch (...) returns false
is_local_block_io_supported(probe) ==
    IF probe.throws # "" /\ StepOf(probe.throws) <= StepOf("build") THEN FALSE
    ELSE IF probe.build # "CL_SUCCESS" THEN FALSE
    ELSE IF probe.throws # "" THEN FALSE
    ELSE \A x \in DOMAIN expected : probe.result[x] = expected[x]

\* init_device_info up to supports_usm
DeviceInfoStart ==
    /\ device.pc = "created"
    /\ device' = [device EXCEPT
          !.pc = "local_block_io",
          !.info = [dev_type |-> get_device_type(device.dev),
                    supports_imad |-> get_imad_support(device.dev),
                    supports_immad |-> FALSE,
                    supports_usm |-> Advertises(device.dev, "cl_intel_unified_shared_memory"),
                    supports_local_block_io |-> FALSE,
                    device_id |-> 0]]
    /\ UNCHANGED <<parser, loader>>

\* info.supports_local_block_io = extensions.find(...) != npos && is_local_block_io_supported(device)
LocalBlockIo ==
    /\ device.pc = "local_block_io"
    /\ IF Advertises(device.dev, "cl_intel_subgroup_local_block_io")
       THEN device' = [device EXCEPT
              !.pc = "attributes",
              !.probes = @ + 1,
              !.kernel_runs = IF KernelRuns(device.dev.probe) THEN @ + 1 ELSE @,
              !.info.supports_local_block_io = is_local_block_io_supported(device.dev.probe)]
       ELSE device' = [device EXCEPT !.pc = "attributes"]
    /\ UNCHANGED <<parser, loader>>

\* the feature bits looked at whether or not the device advertises their query
FeaturesQueriedAlways(dev) == TRUE

\* bool device_attr_supported
device_attr_supported(dev) == Advertises(dev, "cl_intel_device_attribute_query")

\* init_device_info from device_attr_supported to its return
DeviceAttributes ==
    /\ device.pc = "attributes"
    /\ IF device_attr_supported(device.dev)
       THEN device' = [device EXCEPT
              !.pc = "info",
              !.info.device_id = device.dev.device_id,
              !.info.supports_imad = @ \/ "DP4A" \in device.dev.features,
              !.info.supports_immad = @ \/ "DPAS" \in device.dev.features]
       ELSE device' = [device EXCEPT
              !.pc = "info",
              !.info.device_id = driver_dev_id(device.dev)]
    /\ UNCHANGED <<parser, loader>>

\* does_device_support: [throws, value]
does_device_support(query) ==
    [throws |-> query.err # 0, value |-> query.access]

\* The three categories and their queries, in the order init_memory_caps asks
UsmCategories == <<"usm_host", "usm_shared", "usm_device">>

\* init_memory_caps: [throws, caps]
init_memory_caps(dev, info) ==
    IF ~info.supports_usm THEN [throws |-> FALSE, caps |-> {}]
    ELSE [throws |-> \E x \in DOMAIN UsmCategories :
                        /\ does_device_support(dev.usm[UsmCategories[x]]).throws
                        /\ \A y \in 1..(x - 1) :
                              ~does_device_support(dev.usm[UsmCategories[y]]).throws,
          caps |-> {UsmCategories[x] : x \in
                      {y \in DOMAIN UsmCategories :
                          does_device_support(dev.usm[UsmCategories[y]]).value}}]

\* _mem_caps(init_memory_caps(dev, _info)): the constructor returns, or the
\* exception of does_device_support leaves it
InitMemoryCaps ==
    /\ device.pc = "info"
    /\ LET r == init_memory_caps(device.dev, device.info)
       IN  IF r.throws
           THEN device' = [device EXCEPT !.pc = "error"]
           ELSE device' = [device EXCEPT !.pc = "done", !.mem_caps = r.caps]
    /\ UNCHANGED <<parser, loader>>

NextDevice ==
    \/ DeviceInfoStart
    \/ LocalBlockIo
    \/ DeviceAttributes
    \/ InitMemoryCaps

----------------------------------------------------------------------------
(* getParameters, and the names of a port (parsePort)                      *)

\* An attribute string is the sequence of its characters.  The place of the
\* next ',' at or after pos, or one past the end: where getline stops.
RECURSIVE Delimiter(_, _)
Delimiter(param, pos) ==
    IF pos > Len(param) THEN pos
    ELSE IF param[pos] = "," THEN pos
    ELSE Delimiter(param, pos + 1)

\* `fs >> val` for an integer T on a field of digits
RECURSIVE ReadNumber(_, _)
ReadNumber(field, acc) ==
    IF field = <<>> THEN acc
    ELSE ReadNumber(Tail(field),
                    10 * acc + (CASE Head(field) = "1" -> 1 [] Head(field) = "2" -> 2 [] OTHER -> 0))

\* `fs >> val`: the number for an integer T, the field itself for std::string
\* (the fields drawn hold no white space)
ReadField(T, field) == IF T = "int" THEN ReadNumber(field, 0) ELSE field

\* getParameters<T> at its entry, on an attribute that is there
NewParser(T, param, original) ==
    [pc |-> "getline", T |-> T, param |-> param, pos |-> 1, value |-> <<>>,
     names |-> {}, original |-> original]

\* One turn of `while (getline(ss, field, ','))`: the loop ends (getline fails
\* when no character is left to extract), throws on an empty field, or
\* appends the value read from the field.
GetLine ==
    /\ parser.pc = "getline"
    /\ LET stop == Delimiter(parser.param, parser.pos)
           field == SubSeq(parser.param, parser.pos, stop - 1)
       IN  IF parser.pos > Len(parser.param)
           THEN parser' = [parser EXCEPT !.pc = IF parser.T = "names" THEN "names" ELSE "done"]
           ELSE IF field = <<>>
           THEN parser' = [parser EXCEPT !.pc = "error"]
           ELSE parser' = [parser EXCEPT !.value = Append(@, ReadField(parser.T, field)),
                                         !.pos = stop + 1]
    /\ UNCHANGED <<device, loader>>

\* name.replace(pos, 1, ","), pos counted from 0 and at most name.size(): the
\* character at pos (if any) gives way to ','
Replace(name, pos) ==
    SubSeq(name, 1, pos) \o <<",">> \o SubSeq(name, pos + 2, Len(name))

\* The while loop that restores one name from the tokens at i (from 1) on,
\* with "name.replace(names[i].length() - 1, 1, ",")": [name, i, overrun],
\* overrun when names[++i] reads past the vector.
RECURSIVE RestoreName(_, _, _)
RestoreName(names, i, name) ==
    IF i <= Len(names) /\ Last(names[i]) = "\\"
    THEN IF i + 1 > Len(names)
         THEN [name |-> Replace(name, Len(names[i]) - 1), i |-> i + 1, overrun |-> TRUE]
         ELSE RestoreName(names, i + 1, Replace(name, Len(names[i]) - 1) \o names[i + 1])
    ELSE [name |-> name, i |-> i, overrun |-> FALSE]

\* The for loop over the tokens: [names, name, overrun], name being the one
\* under restoration when the loop reads past the vector
RECURSIVE RestoreNames(_, _, _)
RestoreNames(names, i, restored) ==
    IF i > Len(names) THEN [names |-> restored, name |-> <<>>, overrun |-> FALSE]
    ELSE LET r == RestoreName(names, i, names[i])
         IN  IF r.overrun THEN [names |-> restored, name |-> r.name, overrun |-> TRUE]
             ELSE RestoreNames(names, r.i + 1, restored \cup {r.name})

\* what a read of names[names.size()] may give when it does not fault
PastTheEnd == {<<>>, <<"a">>}

\* parsePort after getParameters<std::string>(parentNode, "names", names).
\* Reading names[++i] past the vector is undefined: a fault, or a string of
\* whatever lies there is appended and the loop ends.
ParseNames ==
    /\ parser.pc = "names"
    /\ LET r == RestoreNames(parser.value, 1, {})
       IN  IF ~r.overrun
           THEN parser' = [parser EXCEPT !.pc = "done", !.names = r.names]
           ELSE \/ parser' = [parser EXCEPT !.pc = "fault"]
                \/ \E junk \in PastTheEnd :
                      parser' = [parser EXCEPT !.pc = "done",
                                               !.names = r.names \cup {r.name \o junk}]
    /\ UNCHANGED <<device, loader>>

NextParser ==
    \/ GetLine
    \/ ParseNames

----------------------------------------------------------------------------
(* The documents the specifications draw                                   *)

Layer(id, type, name, version, input, output) ==
    [id |-> id, version |-> version, type |-> type, name |-> name, input |-> input,
     output |-> output, variable_id |-> "", body |-> <<>>, port_map |-> <<>>,
     back_edges |-> <<>>, data |-> <<>>]

Edge(from_layer, from_port, to_layer, to_port) ==
    [from_layer |-> from_layer, from_port |-> from_port,
     to_layer |-> to_layer, to_port |-> to_port]

PortMapEntry(external_port_id, internal_layer_id, axis, purpose) ==
    [external_port_id |-> external_port_id, internal_layer_id |-> internal_layer_id,
     axis |-> axis, purpose |-> purpose,
     start |-> <<>>, stride |-> <<>>, part_size |-> <<>>, end |-> <<>>]

BackEdge(from_layer, to_layer) == [from_layer |-> from_layer, to_layer |-> to_layer]

\* all sequences over S of length at most n
SeqsUpTo(S, n) == UNION {[1..m -> S] : m \in 0..n}

\* A body: two Parameters (ids 1, 2) and two Results (ids 3, 4), of which the
\* DFS reaches 3, 1, 4, 2 in this order of completion: 1, 3, 2, 4.
BodyLayers ==
    <<Layer(1, "Parameter", "bp1", "opset1", <<>>, <<0>>),
      Layer(2, "Parameter", "bp2", "opset1", <<>>, <<0>>),
      Layer(3, "Result", "br1", "opset1", <<0>>, <<>>),
      Layer(4, "Result", "br2", "opset1", <<0>>, <<>>)>>

BodyDoc == [layers |-> BodyLayers, edges |-> <<Edge(1, 0, 3, 0), Edge(2, 0, 4, 0)>>]

LoopLayer(id, body, port_map, back_edges) ==
    [Layer(id, "Loop", "loop", "opset5", <<0>>, <<1>>) EXCEPT
        !.body = body, !.port_map = port_map, !.back_edges = back_edges]

\* Parameter -> Loop -> Result around a sub-graph operator layer
LoopDoc(loop) ==
    [layers |-> <<Layer(1, "Parameter", "a", "opset1", <<>>, <<0>>),
                  loop,
                  Layer(3, "Result", "r", "opset1", <<0>>, <<>>)>>,
     edges |-> <<Edge(1, 0, loop.id, 0), Edge(loop.id, 1, 3, 0)>>]

\* Documents every specification draws, so that each of them runs a body
BaseDocs ==
    {LoopDoc(LoopLayer(2, <<BodyDoc>>,
                       <<[input |-> <<PortMapEntry(0, 1, <<>>, "")>>,
                          output |-> <<PortMapEntry(1, 3, <<>>, "")>>]>>, <<>>)),
     LoopDoc(LoopLayer(2, <<>>, <<>>, <<>>)),
     LoopDoc(LoopLayer(2, <<BodyDoc>>,
                       <<[input |-> <<PortMapEntry(0, 9, <<>>, "")>>,
                          output |-> <<>>]>>, <<>>))}

\* The layers of the wiring documents: the declared port ids differ from the
\* ports' ranks (layer 2 declares inputs 1, 0 and outputs 1, 0).
WiringLayers ==
    <<Layer(1, "Parameter", "a", "opset1", <<>>, <<0>>),
      Layer(2, "Split", "b", "opset1", <<1, 0>>, <<1, 0>>),
      Layer(3, "Result", "r", "opset1", <<0>>, <<>>)>>

\* The edges a wiring document draws from: right ones, ones with a port that
\* is not declared, ones to or from a layer id (9) that no layer has, a self
\* loop and an edge leaving the Result.
EdgeChoices ==
    {Edge(1, 0, 2, 0), Edge(1, 0, 2, 1), Edge(1, 0, 3, 0), Edge(1, 1, 2, 1),
     Edge(2, 0, 3, 0), Edge(2, 1, 3, 0), Edge(2, 0, 3, 1), Edge(2, 1, 2, 0),
     Edge(3, 0, 2, 0), Edge(9, 0, 2, 1), Edge(1, 0, 9, 0), Edge(2, 2, 9, 1)}

\* the wiring documents of at most n edges
WiringDocs(n) == {[layers |-> WiringLayers, edges |-> es] : es \in SeqsUpTo(EdgeChoices, n)}

\* Documents of three layers, Parameters and Results in every order, named
\* from two names; every Result is fed by the first Parameter.
NameTypes ==
    {<<"Parameter", "Result", "Result">>, <<"Result", "Parameter", "Result">>,
     <<"Result", "Result", "Parameter">>, <<"Parameter", "Parameter", "Result">>,
     <<"Parameter", "Result", "Parameter">>, <<"Result", "Parameter", "Parameter">>}

NameDoc(types, names) ==
    LET first == CHOOSE x \in 1..3 : types[x] = "Parameter" /\ \A y \in 1..(x - 1) : types[y] # "Parameter"
        layer(x) == IF types[x] = "Parameter"
                    THEN Layer(x, "Parameter", names[x], "opset1", <<>>, <<0>>)
                    ELSE Layer(x, "Result", names[x], "opset1", <<0>>, <<>>)
    IN  [layers |-> [x \in 1..3 |-> layer(x)],
         edges |-> SelectSeq([x \in 1..3 |-> Edge(first, 0, x, 0)],
                             LAMBDA e : types[e.to_layer] = "Result")]

NameDocs == {NameDoc(types, names) : types \in NameTypes, names \in [1..3 -> {"a", "b"}]}

\* The variable ids the ReadValue and Assign layers drawn carry
VarIds == {"v", "w"}

\* a ReadValue or an Assign layer: one input, one output, <data variable_id=...>
VariableLayer(id, type, name, variable_id) ==
    [Layer(id, type, name, "opset6", <<0>>, <<1>>) EXCEPT !.variable_id = variable_id]

\* A body with a ReadValue and an Assign: Parameter 1 feeds the ReadValue 2;
\* the Assign 3 and the Result 4 are fed by layer asrc and layer rsrc.
VarBody(rid, aid, asrc, rsrc) ==
    [layers |-> <<Layer(1, "Parameter", "bp", "opset1", <<>>, <<0>>),
                  VariableLayer(2, "ReadValue", "brv", rid),
                  VariableLayer(3, "Assign", "bas", aid),
                  Layer(4, "Result", "br", "opset1", <<0>>, <<>>)>>,
     edges |-> <<Edge(1, 0, 2, 0), Edge(asrc, IF asrc = 1 THEN 0 ELSE 1, 3, 0),
                 Edge(rsrc, IF rsrc = 1 THEN 0 ELSE 1, 4, 0)>>]

VarBodies == {VarBody(rid, aid, asrc, rsrc) : rid \in VarIds, aid \in VarIds,
                                              asrc \in {1, 2}, rsrc \in {1, 2}}

\* A function with two ReadValue layers (2, 3) fed by Parameter 1, an Assign 4
\* fed by layer asrc, a Result 5 fed by layer rsrc and, when `loop` holds a
\* layer, that sub-graph operator (6) between the Parameter and a Result 7.
VarDoc(rid1, rid2, aid, asrc, rsrc, loop) ==
    [layers |-> <<Layer(1, "Parameter", "p", "opset1", <<>>, <<0>>),
                  VariableLayer(2, "ReadValue", "rv1", rid1),
                  VariableLayer(3, "ReadValue", "rv2", rid2),
                  VariableLayer(4, "Assign", "as", aid),
                  Layer(5, "Result", "r", "opset1", <<0>>, <<>>)>>
                \o loop
                \o (IF loop = <<>> THEN <<>>
                    ELSE <<Layer(7, "Result", "r2", "opset1", <<0>>, <<>>)>>),
     edges |-> <<Edge(1, 0, 2, 0), Edge(1, 0, 3, 0),
                 Edge(asrc, IF asrc = 1 THEN 0 ELSE 1, 4, 0),
                 Edge(rsrc, IF rsrc = 1 THEN 0 ELSE 1, 5, 0)>>
               \o (IF loop = <<>> THEN <<>>
                   ELSE <<Edge(1, 0, 6, 0), Edge(6, 1, 7, 0)>>)]

VarLoops ==
    {<<>>} \cup {<<LoopLayer(6, <<body>>, <<>>, <<>>)>> : body \in VarBodies}

VarDocs ==
    {VarDoc(rid1, rid2, aid, asrc, rsrc, loop) :
        rid1 \in VarIds, rid2 \in VarIds, aid \in VarIds,
        asrc \in {1, 2, 3}, rsrc \in {1, 2, 3}, loop \in VarLoops}

\* The most <input> and the most <output> elements of a <port_map> drawn
MaxPorts == 2

\* <port_map>/<input> elements: connected or not (external_port_id -1), onto
\* either Parameter (1, 2) of BodyDoc, with or without an axis
PortInputs ==
    {PortMapEntry(-1, 1, <<>>, ""), PortMapEntry(0, 1, <<>>, ""),
     PortMapEntry(1, 1, <<>>, ""), PortMapEntry(0, 1, <<0>>, ""),
     PortMapEntry(-1, 1, <<0>>, ""), PortMapEntry(-1, 2, <<>>, ""),
     PortMapEntry(0, 2, <<>>, ""), PortMapEntry(1, 2, <<>>, "")}

\* <port_map>/<output> elements: the same onto either Result (3, 4) of BodyDoc
PortOutputs ==
    {PortMapEntry(-1, 3, <<>>, ""), PortMapEntry(0, 3, <<>>, ""),
     PortMapEntry(1, 3, <<>>, ""), PortMapEntry(0, 3, <<0>>, ""),
     PortMapEntry(-1, 4, <<0>>, ""), PortMapEntry(0, 4, <<>>, ""),
     PortMapEntry(1, 4, <<>>, ""), PortMapEntry(1, 4, <<0>>, "")}

\* <back_edges>: none, one, two onto the same Parameter in both orders, and
\* one onto the other Parameter
BackEdgeChoices ==
    {<<>>, <<BackEdge(3, 1)>>, <<BackEdge(4, 1), BackEdge(3, 1)>>,
     <<BackEdge(3, 1), BackEdge(4, 1)>>, <<BackEdge(4, 2)>>}

\* Parameter 1 feeds both inputs of the Loop 2, whose two outputs feed the
\* Results 3 and 4
PortMapDoc(input, output, back_edges) ==
    LET loop == [LoopLayer(2, <<BodyDoc>>, <<[input |-> input, output |-> output]>>,
                           back_edges)
                 EXCEPT !.input = <<0, 1>>, !.output = <<2, 3>>]
    IN  [layers |-> <<Layer(1, "Parameter", "a", "opset1", <<>>, <<0>>),
                      loop,
                      Layer(3, "Result", "r1", "opset1", <<0>>, <<>>),
                      Layer(4, "Result", "r2", "opset1", <<0>>, <<>>)>>,
         edges |-> <<Edge(1, 0, 2, 0), Edge(1, 0, 2, 1),
                     Edge(2, 2, 3, 0), Edge(2, 3, 4, 0)>>]

\* the port map documents of at most n <input> or <output> elements
PortMapDocs(n) ==
    {PortMapDoc(input, <<PortMapEntry(0, 3, <<>>, "")>>, back_edges) :
        input \in SeqsUpTo(PortInputs, n), back_edges \in BackEdgeChoices}
    \cup
    {PortMapDoc(<<PortMapEntry(0, 1, <<>>, "")>>, output, <<>>) :
        output \in SeqsUpTo(PortOutputs, n)}

\* <port_map> elements with and without a purpose, several of them with the
\* same external_port_id
PurposeInputs ==
    {PortMapEntry(-1, 1, <<>>, ""), PortMapEntry(-1, 2, <<>>, "current_iteration"),
     PortMapEntry(0, 1, <<>>, ""), PortMapEntry(0, 2, <<>>, "current_iteration"),
     PortMapEntry(1, 1, <<>>, "current_iteration")}

PurposeOutputs ==
    {PortMapEntry(-1, 3, <<>>, "execution_condition"), PortMapEntry(-1, 4, <<>>, ""),
     PortMapEntry(0, 3, <<>>, ""), PortMapEntry(0, 4, <<>>, "execution_condition")}

\* the Loop documents of at most n <input> or <output> elements with purposes
PurposeDocs(n) ==
    {PortMapDoc(input, <<PortMapEntry(0, 3, <<>>, "")>>, <<>>) :
        input \in SeqsUpTo(PurposeInputs, n)}
    \cup
    {PortMapDoc(<<PortMapEntry(0, 1, <<>>, "")>>, output, <<>>) :
        output \in SeqsUpTo(PurposeOutputs, n)}

\* <data offset=... size=... element_type=... shape=...>, the last two
\* attributes as sequences of no or one value
Data(offset, size, element_type, shape) ==
    [offset |-> offset, size |-> size, element_type |-> element_type, shape |-> shape]

\* the <data> of the operator layers: the first byte of the blob as a u8 scalar
OneByte == <<Data(SizeOf(0), SizeOf(1), <<"u8">>, << <<>> >>)>>

\* the blob of the documents whose weights do not vary: four bytes
FourBytes == SizeOf(4)

\* The blob lengths, offsets and sizes a weights document draws: small ones
\* and ones whose sum passes 2^64
BlobLengths == {SizeOf(0), SizeOf(4), SizeOf(8)}

Offsets == {SizeOf(0), SizeOf(2), SizeOf(6), SizeOf(9), SizeMaxLess(1), SizeMaxLess(2)}

Sizes == {SizeOf(0), SizeOf(1), SizeOf(2), SizeOf(4), SizeOf(8), SizeMaxLess(1)}

\* A Const layer (or a Constant one, or one without <data>) feeding a Result
WeightsDoc(type, data) ==
    [layers |-> <<[Layer(1, type, "c", "opset1", <<>>, <<0>>) EXCEPT !.data = data],
                  Layer(2, "Result", "r", "opset1", <<0>>, <<>>)>>,
     edges |-> <<Edge(1, 0, 2, 0)>>]

WeightsDocs ==
    {WeightsDoc("Const", <<Data(offset, size, element_type, shape)>>) :
        offset \in Offsets, size \in Sizes, element_type \in {<<>>, <<"u8">>},
        shape \in {<<>>, << <<>> >>, << <<2>> >>, << <<2, 2>> >>}}
    \cup {WeightsDoc("Const", <<>>), WeightsDoc("Constant", OneByte)}

\* The type names and the versions of the one operator layer of an opset document
OpsetTypes ==
    {"GRUCell", "ExperimentalDetectronTopKROIs", "MVN", "mvn", "ROIPooling", "Const",
     "Add", "Foo"}

OpsetVersions == {"opset1", "opset2", "opset6", "experimental", "extension", "opset99"}

\* Parameter 1 -> the operator layer 2 -> Result 3
OpsetDoc(type, version) ==
    [layers |-> <<Layer(1, "Parameter", "a", "opset1", <<>>, <<0>>),
                  [Layer(2, type, "op", version, <<0>>, <<1>>) EXCEPT !.data = OneByte],
                  Layer(3, "Result", "r", "opset1", <<0>>, <<>>)>>,
     edges |-> <<Edge(1, 0, 2, 0), Edge(2, 1, 3, 0)>>]

OpsetDocs == {OpsetDoc(type, version) : type \in OpsetTypes, version \in OpsetVersions}

\* The same operator layer inside the <body> of a Loop (layer 2 of LoopDoc):
\* Parameter 1 -> the operator layer 2 -> Result 3
OpsetBody(type, version) ==
    [layers |-> <<Layer(1, "Parameter", "bp", "opset1", <<>>, <<0>>),
                  [Layer(2, type, "bop", version, <<0>>, <<1>>) EXCEPT !.data = OneByte],
                  Layer(3, "Result", "br", "opset1", <<0>>, <<>>)>>,
     edges |-> <<Edge(1, 0, 2, 0), Edge(2, 1, 3, 0)>>]

\* a Loop without <port_map> around a body
LoopAround(body) == LoopDoc(LoopLayer(2, <<body>>, <<>>, <<>>))

\* the operator layer one and two sub-graph operators deep
OpsetBodyDocs ==
    {LoopAround(OpsetBody(type, version)) : type \in OpsetTypes, version \in OpsetVersions}
    \cup
    {LoopAround(LoopAround(OpsetBody(type, version))) :
        type \in {"Foo", "GRUCell", "Add"}, version \in {"opset1", "opset99", "experimental"}}

\* an extension: what GetVersion describes it as and what getOpSets returns
Extension(description, opsets) == [description |-> description, opsets |-> opsets]

\* Extension lists: none; one that registers "experimental"; the framework
\* node extension; one that registers a name the default opsets have; two
\* that register the same name; two that register different names
OpsetExts ==
    {<<>>,
     <<Extension("custom", [name \in {"experimental"} |-> {"Foo", "GRUCell"}])>>,
     <<Extension("framework_node_ext", EmptyMap)>>,
     <<Extension("custom", [name \in {"opset1"} |-> {"Foo"}])>>,
     <<Extension("custom", [name \in {"experimental"} |-> {"Foo"}]),
       Extension("custom", [name \in {"experimental", "extension"} |-> {"GRUCell"}])>>,
     <<Extension("custom", [name \in {"experimental"} |-> {"Foo"}]),
       Extension("custom", [name \in {"extension"} |-> {"GRUCell"}])>>}

InitOf(docs, weights, exts) ==
    /\ device = NoDevice
    /\ parser = [pc |-> "none"]
    /\ visit_order = "body_first"
    /\ m_root \in docs
    /\ m_weights \in weights
    /\ m_exts \in exts
    /\ m_opsets = EmptyMap
    /\ m_variables = EmptyMap
    /\ n_variables = 0
    /\ stack = <<>>
    /\ result = [status |-> "created", what |-> ""]

InitWith(docs, exts) == InitOf(docs, {FourBytes}, exts)

Init == InitWith(BaseDocs \cup WiringDocs(MaxEdges) \cup NameDocs, {<<>>})

Spec == Init /\ [][Next]_vars

InitVars == InitWith(BaseDocs \cup VarDocs, {<<>>})

SpecVars == InitVars /\ [][Next]_vars

InitPortMap == InitWith(BaseDocs \cup PortMapDocs(MaxPorts), {<<>>})

SpecPortMap == InitPortMap /\ [][Next]_vars

InitPurpose == InitWith(BaseDocs \cup PurposeDocs(MaxPorts), {<<>>})

SpecPurpose == InitPurpose /\ [][Next]_vars

\* The attribute strings of at most n characters from an alphabet, the empty
\* string left out
Strings(alphabet, n) == SeqsUpTo(alphabet, n) \ {<<>>}

\* The longest vector attribute drawn, the longest tensor name and the most
\* names of a port
MaxChars == 4

MaxNameLen == 3

MaxNames == 2

\* The writer of the names attribute: every ',' of a name becomes '\,' and
\* the names are joined by ','
RECURSIVE EscapeName(_)
EscapeName(name) ==
    IF name = <<>> THEN <<>>
    ELSE (IF Head(name) = "," THEN <<"\\", ",">> ELSE <<Head(name)>>) \o EscapeName(Tail(name))

RECURSIVE JoinNames(_)
JoinNames(names) ==
    IF Len(names) = 1 THEN EscapeName(names[1])
    ELSE EscapeName(names[1]) \o <<",">> \o JoinNames(Tail(names))

\* getParameters on a vector-of-integer attribute, or parsePort on the names
\* attribute written for a list of tensor names
InitParser ==
    /\ parser \in {NewParser("int", param, <<>>) : param \in Strings({"1", "2", ","}, MaxChars)}
               \cup {NewParser("names", JoinNames(names), names) :
                        names \in SeqsUpTo(Strings({"a", ","}, MaxNameLen), MaxNames) \ {<<>>}}
    /\ device = NoDevice
    /\ visit_order = "body_first"
    /\ m_root = [layers |-> <<>>, edges |-> <<>>]
    /\ m_weights = FourBytes
    /\ m_exts = <<>>
    /\ m_opsets = EmptyMap
    /\ m_variables = EmptyMap
    /\ n_variables = 0
    /\ stack = <<>>
    /\ result = [status |-> "created", what |-> ""]

SpecParser == InitParser /\ [][NextParser]_vars

\* Loop documents whose body reaches both Parameters or leaves Parameter 2
\* unreached (both Results fed by Parameter 1), for either visiting order
VisitBodies ==
    {BodyDoc, [BodyDoc EXCEPT !.edges = <<Edge(1, 0, 3, 0), Edge(1, 0, 4, 0)>>]}

VisitInputs ==
    {PortMapEntry(0, 1, <<>>, ""), PortMapEntry(1, 2, <<>>, ""), PortMapEntry(0, 2, <<0>>, "")}

VisitOutputs == {PortMapEntry(0, 3, <<>>, ""), PortMapEntry(1, 4, <<0>>, "")}

VisitDoc(body, input, output, back_edges) ==
    LET doc == PortMapDoc(input, output, back_edges)
    IN  [doc EXCEPT !.layers[2].body = <<body>>]

VisitDocs(n) ==
    {VisitDoc(body, input, output, back_edges) :
        body \in VisitBodies, input \in SeqsUpTo(VisitInputs, n),
        output \in SeqsUpTo(VisitOutputs, n), back_edges \in {<<>>, <<BackEdge(4, 2)>>}}

InitVisit ==
    /\ device = NoDevice
    /\ parser = [pc |-> "none"]
    /\ visit_order \in VisitOrders
    /\ m_root \in BaseDocs \cup VisitDocs(MaxPorts)
    /\ m_weights = FourBytes
    /\ m_exts = <<>>
    /\ m_opsets = EmptyMap
    /\ m_variables = EmptyMap
    /\ n_variables = 0
    /\ stack = <<>>
    /\ result = [status |-> "created", what |-> ""]

SpecVisit == InitVisit /\ [][Next]_vars

InitOpset == InitWith(BaseDocs \cup OpsetDocs \cup OpsetBodyDocs, OpsetExts)

SpecOpset == InitOpset /\ [][Next]_vars

InitWeights == InitOf(BaseDocs \cup WeightsDocs, BlobLengths, {<<>>})

SpecWeights == InitWeights /\ [][Next]_vars

\* The documents of the construction order: a Parameter, two operators and a
\* Result, with edges drawn from ones that make a layer reachable along two
\* paths, a cycle between the operators (2 -> 3 -> 2), a self loop (2 -> 2)
\* and an operator the Result does not reach.
MaxDfsEdges == 3

DfsLayers ==
    <<Layer(1, "Parameter", "a", "opset1", <<>>, <<0>>),
      Layer(2, "Add", "b", "opset1", <<0, 1>>, <<2>>),
      Layer(3, "MVN", "c", "opset2", <<0>>, <<1>>),
      Layer(4, "Result", "r", "opset1", <<0>>, <<>>)>>

DfsEdges ==
    {Edge(1, 0, 2, 0), Edge(1, 0, 2, 1), Edge(2, 2, 3, 0), Edge(3, 1, 2, 1),
     Edge(3, 1, 4, 0), Edge(2, 2, 4, 0), Edge(2, 2, 2, 1)}

DfsDocs(n) == {[layers |-> DfsLayers, edges |-> es] : es \in SeqsUpTo(DfsEdges, n)}

InitDfs == InitWith(BaseDocs \cup DfsDocs(MaxDfsEdges), {<<>>})

SpecDfs == InitDfs /\ [][Next]_vars

\* parse_function is sequential code: a DFS that has a next step takes it
SpecDfsFair == InitDfs /\ [][Next]_vars /\ WF_vars(DfsStep)

\* The documents of the parameters and results lists: two Parameters, an
\* operator and two Results in three document orders; the operator's two
\* incoming edges in either order or both from one Parameter; the second
\* Result fed by the operator, by a Parameter or by the first Result (an
\* edge leaving a Result, which the first Result's output port allows).
OrderLayers ==
    LET a == Layer(1, "Parameter", "a", "opset1", <<>>, <<0>>)
        b == Layer(2, "Parameter", "b", "opset1", <<>>, <<0>>)
        c == Layer(3, "Add", "c", "opset1", <<0, 1>>, <<2>>)
        r == Layer(4, "Result", "r", "opset1", <<0>>, <<1>>)
        s == Layer(5, "Result", "s", "opset1", <<0>>, <<>>)
    IN  {<<a, b, c, r, s>>, <<s, r, c, b, a>>, <<b, s, a, c, r>>}

OrderEdgesIntoAdd ==
    {<<Edge(1, 0, 3, 0), Edge(2, 0, 3, 1)>>, <<Edge(2, 0, 3, 1), Edge(1, 0, 3, 0)>>,
     <<Edge(1, 0, 3, 0), Edge(1, 0, 3, 1)>>}

OrderEdgesIntoResult ==
    {Edge(3, 2, 5, 0), Edge(2, 0, 5, 0), Edge(1, 0, 5, 0), Edge(4, 1, 5, 0)}

OrderDocs ==
    {[layers |-> layers, edges |-> <<e>> \o es \o <<Edge(3, 2, 4, 0)>>] :
        layers \in OrderLayers, es \in OrderEdgesIntoAdd, e \in OrderEdgesIntoResult}

InitOrder == InitWith(BaseDocs \cup OrderDocs, {<<>>})

SpecOrder == InitOrder /\ [][Next]_vars

\* The devices drawn.  A cl::Device is what its queries answer: its name, the
\* host-unified-memory flag, the display device ids the system lists, the id
\* CL_DEVICE_ID_INTEL reports, its extensions, its feature capabilities, what
\* each step of the local block io probe comes to, and the answer (error
\* code, ACCESS bit) to each USM capability query.
GoodProbe == [throws |-> "", build |-> "CL_SUCCESS", result |-> expected]

Probes ==
    {GoodProbe,
     [GoodProbe EXCEPT !.build = "CL_BUILD_PROGRAM_FAILURE"],
     [GoodProbe EXCEPT !.result = <<0, 3, 5, 7, 9, 11, 13, 15>>],
     [GoodProbe EXCEPT !.result = <<1, 3, 5, 7, 9, 11, 13, 14>>],
     [GoodProbe EXCEPT !.result = <<0, 0, 0, 0, 0, 0, 0, 0>>]}
    \cup {[GoodProbe EXCEPT !.throws = step] : step \in Range(ProbeSteps)}
    \cup {[GoodProbe EXCEPT !.throws = "read", !.result = <<0, 0, 0, 0, 0, 0, 0, 0>>]}

UsmAnswers == [err : {0, -30}, access : BOOLEAN]

AllExtensions ==
    {"cl_intel_unified_shared_memory", "cl_intel_subgroup_local_block_io",
     "cl_intel_device_attribute_query"}

BaseDevice ==
    [dev_name |-> "Intel(R) UHD Graphics 630", unified_mem |-> TRUE, displays |-> <<>>,
     device_id |-> 16018, extensions |-> AllExtensions, features |-> {},
     probe |-> GoodProbe,
     usm |-> [c \in Range(UsmCategories) |-> [err |-> 0, access |-> TRUE]]]

\* a display device of vendor 0x8086 as the system lists it
IntelDisplay(id) == [vendor |-> 32902, id |-> id]

\* what decides IMAD and IMMAD
ImadDevices ==
    {[BaseDevice EXCEPT !.dev_name = dev_name, !.unified_mem = unified_mem,
                        !.displays = [i \in 1..Len(pci_ids) |-> IntelDisplay(pci_ids[i])],
                        !.extensions = extensions,
                        !.features = features] :
        dev_name \in {"Intel(R) UHD Graphics 630", "Intel(R) Gen12LP HD Graphics",
                      "Intel(R) Iris(R) Xe Graphics"},
        unified_mem \in BOOLEAN,
        pci_ids \in {<<>>, <<39488>>, <<16018>>, <<18693>>, <<39625, 18693>>, <<39488, 16018>>},
        extensions \in {AllExtensions, AllExtensions \ {"cl_intel_device_attribute_query"}},
        features \in SUBSET {"DP4A", "DPAS"}}

\* the display devices a system may list: Intel and other vendors, reserved
\* and other ids
MaxDisplays == 2

Displays == [vendor : {32902, 4318}, id : {18693, 18696, 39488, 39625}]

\* what decides the device id fallback
FallbackDevices ==
    {[BaseDevice EXCEPT !.displays = displays, !.extensions = extensions] :
        displays \in SeqsUpTo(Displays, MaxDisplays),
        extensions \in {AllExtensions, AllExtensions \ {"cl_intel_device_attribute_query"}}}

\* what decides supports_local_block_io
ProbeDevices ==
    {[BaseDevice EXCEPT !.probe = probe, !.extensions = extensions] :
        probe \in Probes,
        extensions \in {AllExtensions, AllExtensions \ {"cl_intel_subgroup_local_block_io"}}}

\* what decides the memory capabilities
UsmDevices ==
    {[BaseDevice EXCEPT !.usm = usm, !.extensions = extensions] :
        usm \in [Range(UsmCategories) -> UsmAnswers],
        extensions \in {AllExtensions, AllExtensions \ {"cl_intel_unified_shared_memory"}}}

\* ocl_device::ocl_device before its member initializers run
NewDevice(dev) ==
    [pc |-> "created", dev |-> dev, info |-> <<>>, mem_caps |-> {}, probes |-> 0,
     kernel_runs |-> 0]

InitDevice ==
    /\ device \in {NewDevice(dev) : dev \in ImadDevices \cup ProbeDevices \cup UsmDevices \cup FallbackDevices}
    /\ parser = [pc |-> "none"]
    /\ visit_order = "body_first"
    /\ m_root = [layers |-> <<>>, edges |-> <<>>]
    /\ m_weights = FourBytes
    /\ m_exts = <<>>
    /\ m_opsets = EmptyMap
    /\ m_variables = EmptyMap
    /\ n_variables = 0
    /\ stack = <<>>
    /\ result = [status |-> "created", what |-> ""]

SpecDevice == InitDevice /\ [][NextDevice]_vars

----------------------------------------------------------------------------
(* What the claims speak of, read off the XML document itself              *)

\* the <layer> of a function that carries a layer id (ids are distinct in
\* the documents drawn)
XmlLayer(root, id) == root.layers[CHOOSE x \in DOMAIN root.layers : root.layers[x].id = id]

HasXmlLayer(root, id) == \E x \in DOMAIN root.layers : root.layers[x].id = id

\* the <edge> elements that end in a layer, in document order
IncomingEdges(root, id) == SelectSeq(root.edges, LAMBDA e : e.to_layer = id)

IsDeclared(ports, id) == \E x \in DOMAIN ports : ports[x] = id

\* the rank of a declared port id: its 0-based position in declaration order
Rank(ports, id) ==
    (CHOOSE x \in DOMAIN ports : ports[x] = id /\ \A y \in 1..(x - 1) : ports[y] # id) - 1

\* the frames, and the nodes each has constructed so far
Frames == {stack[x] : x \in DOMAIN stack}

\* the place in func_nodes.all of the node made from a layer id, 0 if none
NodeAt(f, id) ==
    IF \E at \in DOMAIN f.all : f.all[at].id = id
    THEN CHOOSE at \in DOMAIN f.all : f.all[at].id = id
    ELSE 0

Returned == result.status = "ok"

----------------------------------------------------------------------------
(* C1: every input slot 0..n-1 of a constructed node, n being the number of *)
(* edges that end in its layer, is bound to an output of a node constructed *)
(* strictly earlier, and the edges of a constructed layer bind n distinct   *)
(* slots below n: a layer wired otherwise is never constructed, so the      *)
(* conversion that reaches it fails.                                        *)

SlotsBound(f, at) ==
    LET node == f.all[at]
        es == IncomingEdges(f.root, node.id)
        ports == XmlLayer(f.root, node.id).input
    IN  /\ Len(node.inputs) = Len(es)
        /\ \A slot \in DOMAIN node.inputs :
              /\ node.inputs[slot].node \in 1..(at - 1)
              /\ Cardinality({j \in DOMAIN es :
                                /\ IsDeclared(ports, es[j].to_port)
                                /\ Rank(ports, es[j].to_port) = slot - 1}) = 1
        /\ \A j \in DOMAIN es :
              /\ IsDeclared(ports, es[j].to_port)
              /\ Rank(ports, es[j].to_port) < Len(es)

C1_InputsBoundEarlier ==
    \A f \in Frames :
        /\ \A at \in DOMAIN f.all : SlotsBound(f, at)
        /\ f.pc = "done" => \A x \in DOMAIN f.order : f.all[x].id = f.order[x]

\* a returned Function with a node of two inputs
C1_Witness ==
    /\ Returned
    /\ \E at \in DOMAIN stack[1].all : Len(stack[1].all[at].inputs) = 2

----------------------------------------------------------------------------
(* C2: once the layers table is accepted, two distinct layers that share a  *)
(* name are both of type Result, whatever their order in the document.      *)

LayersAccepted(f) == f.pc # "layers" \/ f.i > Len(f.root.layers)

C2_SharedNamesAreResults ==
    \A f \in Frames :
        LayersAccepted(f) =>
            \A x, y \in DOMAIN f.root.layers :
                (x # y /\ f.root.layers[x].name = f.root.layers[y].name)
                    => (f.root.layers[x].type = "Result" /\ f.root.layers[y].type = "Result")

----------------------------------------------------------------------------
(* C3: in a conversion that returns a Function, every edge of the edge      *)
(* table, whether or not its to-layer is reachable from an output, joins    *)
(* two layers of the layers table at a declared output port and a declared  *)
(* input port.                                                              *)

EdgeIsSound(root, e) ==
    /\ HasXmlLayer(root, e.from_layer)
    /\ HasXmlLayer(root, e.to_layer)
    /\ IsDeclared(XmlLayer(root, e.from_layer).output, e.from_port)
    /\ IsDeclared(XmlLayer(root, e.to_layer).input, e.to_port)

C3_EveryEdgeSound ==
    Returned => \A x \in DOMAIN m_root.edges : EdgeIsSound(m_root, m_root.edges[x])

----------------------------------------------------------------------------
(* C4: the input slot an edge binds is the rank of its to-port among the    *)
(* target layer's declared input ports, and the output it takes is the rank *)
(* of its from-port among the source layer's declared output ports.         *)

WiredByRank(f, at) ==
    LET node == f.all[at]
        es == IncomingEdges(f.root, node.id)
    IN  \A j \in DOMAIN es :
            LET e == es[j]
                slot == Rank(XmlLayer(f.root, node.id).input, e.to_port)
            IN  /\ slot + 1 \in DOMAIN node.inputs
                /\ node.inputs[slot + 1] =
                      [node  |-> NodeAt(f, e.from_layer),
                       index |-> Rank(XmlLayer(f.root, e.from_layer).output, e.from_port)]

C4_WiringUsesRanks ==
    \A f \in Frames : \A at \in DOMAIN f.all : WiredByRank(f, at)

\* a node whose input declared with id 1 is bound as slot 0, from the output
\* declared with id 1 of its source, which is output 0
C4_Witness ==
    /\ Returned
    /\ \E at \in DOMAIN stack[1].all :
          LET node == stack[1].all[at]
          IN  /\ XmlLayer(m_root, node.id).input = <<1, 0>>
              /\ Len(node.inputs) = 2
              /\ \E e \in Range(m_root.edges) : e.to_layer = node.id /\ e.to_port = 1
          /\ \E e \in Range(m_root.edges) :
                /\ e.from_layer = stack[1].all[at].id /\ e.from_port = 1
                /\ NodeAt(stack[1], e.to_layer) # 0
                /\ stack[1].all[NodeAt(stack[1], e.to_layer)].inputs[1].index = 0

----------------------------------------------------------------------------
\* the ReadValue nodes of a function that carry a variable id
ReadValuesOf(f, variable_id) ==
    {at \in DOMAIN f.all : f.all[at].cls = "ReadValue" /\ f.all[at].variable_id = variable_id}

AssignsOf(f) == {at \in DOMAIN f.all : f.all[at].cls = "Assign"}

\* the frames whose parse_function has returned its Function
ReturnedFrames == {f \in Frames : f.pc = "done"}

\* C5: for every Assign node of a returned Function there is exactly one
\* ReadValue node of that Function with the same variable_id, and the Assign
\* has a control dependency on it - also when several ReadValue layers carry
\* the same variable_id.
C5_OneReadValuePerAssign ==
    \A f \in ReturnedFrames : \A a \in AssignsOf(f) :
        /\ Cardinality(ReadValuesOf(f, f.all[a].variable_id)) = 1
        /\ ReadValuesOf(f, f.all[a].variable_id) \subseteq f.all[a].control_dependencies

\* C6: a parse_function call returns a Function only if every Assign sink it
\* built has a ReadValue of the same variable_id built by that same call; with
\* no such ReadValue (none in the document, one the walk from the Results and
\* Assigns does not reach, or one only in an enclosing or nested function) the
\* conversion fails.
C6_AssignNeedsReadValueOfSameCall ==
    /\ \A f \in ReturnedFrames : \A a \in AssignsOf(f) :
           ReadValuesOf(f, f.all[a].variable_id) # {}
    /\ \A f \in Frames :
           (/\ f.pc = "nodes"
            /\ f.k > Len(f.order)
            /\ \E a \in AssignsOf(f) : ReadValuesOf(f, f.all[a].variable_id) = {})
           => ~Returned

\* C6 witness: a body's call has failed on an Assign whose variable id only a
\* ReadValue of the enclosing function carries.
C6_Witness ==
    /\ result.status = "error"
    /\ Len(stack) = 2
    /\ stack[2].pc = "nodes"
    /\ \E a \in AssignsOf(stack[2]) :
          /\ ReadValuesOf(stack[2], stack[2].all[a].variable_id) = {}
          /\ ReadValuesOf(stack[1], stack[2].all[a].variable_id) # {}

\* every node under construction or constructed, in any call
AllNodes ==
    UNION {Range(f.all) : f \in Frames}

VariableNodes == {n \in AllNodes : n.variable_id # ""}

\* C7 (state part): the table holds one Variable per id ever referenced and
\* no other was made, and every node that referenced an id holds the Variable
\* the table has for it.
VariablesTableConsistent ==
    /\ n_variables = Cardinality(DOMAIN m_variables)
    /\ \A x, y \in DOMAIN m_variables : m_variables[x] = m_variables[y] => x = y
    /\ \A n \in VariableNodes :
          Has(m_variables, n.variable_id) /\ n.variable = m_variables[n.variable_id]

\* C7 (step part): an entry of the table is never replaced or removed
VariablesTableGrows ==
    \A id \in DOMAIN m_variables :
        Has(m_variables', id) /\ m_variables'[id] = m_variables[id]

\* C7: within one convert() call the variables table holds at most one
\* Variable per variable_id, an entry once made is never replaced or removed,
\* and every node that referenced an id holds the Variable of the first node
\* that referenced it, at the top level and inside sub-graph bodies.
C7_OneVariablePerId == [](VariablesTableConsistent) /\ [][VariablesTableGrows]_vars

\* C7 witness: a node of a body and a node of the enclosing function hold the
\* same Variable, and the table has two entries.
C7_Witness ==
    /\ Len(stack) = 2
    /\ Cardinality(DOMAIN m_variables) = 2
    /\ \E n \in Range(stack[1].all), b \in Range(stack[2].all) :
          /\ n.variable_id # ""
          /\ n.variable_id = b.variable_id
          /\ n.variable = b.variable
          /\ n.cls # b.cls

----------------------------------------------------------------------------
\* the sub-graph operators constructed so far from a layer with a <port_map>,
\* each with the frame that holds it
SubGraphNodes ==
    {n \in UNION {{<<f, at>> : at \in DOMAIN f.all} : f \in Frames} :
        /\ n[1].all[n[2]].cls = "SubGraphOp"
        /\ XmlLayer(n[1].root, n[1].all[n[2]].id).port_map # <<>>}

\* the elements of a <port_map> list that are processed: the first one, in
\* document order, of each external_port_id
Processed(elems) ==
    {j \in DOMAIN elems : \A i \in 1..(j - 1) :
        elems[i].external_port_id # elems[j].external_port_id}

\* the position (from 0) of a layer id among the ids of a body's Parameters or Results
IndexIn(ids, id) == (CHOOSE x \in DOMAIN ids : ids[x] = id) - 1

MatchingBackEdges(xml, x) ==
    {j \in DOMAIN xml.back_edges : xml.back_edges[j].to_layer = x.internal_layer_id}

\* the kind of description the priority gives an <input>
KindByPriority(xml, x) ==
    IF x.axis # <<>> THEN "Slice"
    ELSE IF MatchingBackEdges(xml, x) # {} THEN "Merged"
    ELSE IF x.external_port_id >= 0 THEN "Invariant"
    ELSE "none"

DescriptionsFor(ds, ext) == {k \in DOMAIN ds : ds[k].input_index = ext}

InputsClassified(f, at) ==
    LET xml == XmlLayer(f.root, f.all[at].id)
        elems == xml.port_map[1].input
        ds == f.all[at].input_descriptions
        body == f.all[at].body[1]
    IN  /\ Len(ds) = Cardinality({j \in Processed(elems) : KindByPriority(xml, elems[j]) # "none"})
        /\ \A j \in Processed(elems) :
              LET x == elems[j]
                  mine == DescriptionsFor(ds, x.external_port_id)
              IN  IF KindByPriority(xml, x) = "none" THEN mine = {}
                  ELSE /\ Cardinality(mine) = 1
                       /\ \A k \in mine :
                             /\ ds[k].kind = KindByPriority(xml, x)
                             /\ ds[k].body_parameter_index = IndexIn(body.parameters, x.internal_layer_id)
                             /\ ds[k].kind = "Merged" =>
                                   \E b \in MatchingBackEdges(xml, x) :
                                      /\ \A c \in MatchingBackEdges(xml, x) : b <= c
                                      /\ ds[k].body_value_index =
                                            IndexIn(body.results, xml.back_edges[b].from_layer)

\* C8: each processed <port_map>/<input> is classified by priority: with an
\* axis it is Sliced (also when a back-edge onto its internal layer exists);
\* else with a matching back-edge it is Merged, from the first matching
\* back-edge in document order; else with external_port_id >= 0 it is
\* Invariant; else no description is emitted.
C8_InputsClassifiedByPriority ==
    \A n \in SubGraphNodes : InputsClassified(n[1], n[2])

\* C8 witness: an operator was built from an <input> with an axis and a
\* back-edge onto its internal layer (Sliced) and an unconnected <input>
\* without back-edge (nothing emitted).
C8_Witness ==
    \E n \in SubGraphNodes :
        LET xml == XmlLayer(n[1].root, n[1].all[n[2]].id)
            elems == xml.port_map[1].input
            ds == n[1].all[n[2]].input_descriptions
        IN  /\ Len(elems) = 2
            /\ Len(ds) = 1
            /\ ds[1].kind = "Slice"
            /\ \E j \in Processed(elems) :
                  elems[j].axis # <<>> /\ MatchingBackEdges(xml, elems[j]) # {}
            /\ \E j \in Processed(elems) : KindByPriority(xml, elems[j]) = "none"

\* the processed <output> elements with a non-negative external_port_id
ConnectedOutputs(elems) == {j \in Processed(elems) : elems[j].external_port_id >= 0}

OutputsNumbered(f, at) ==
    LET xml == XmlLayer(f.root, f.all[at].id)
        elems == xml.port_map[1].output
        ds == f.all[at].output_descriptions
        body == f.all[at].body[1]
    IN  /\ Len(ds) = Cardinality(ConnectedOutputs(elems))
        /\ \A k \in DOMAIN ds :
              /\ ds[k].output_index = k - 1
              /\ \E j \in ConnectedOutputs(elems) :
                    /\ Cardinality({i \in ConnectedOutputs(elems) :
                          elems[i].external_port_id < elems[j].external_port_id}) = k - 1
                    /\ ds[k].body_value_index = IndexIn(body.results, elems[j].internal_layer_id)
                    /\ ds[k].kind = IF elems[j].axis # <<>> THEN "Concat" ELSE "Body"

\* C9: in the output descriptions made from a <port_map> no description comes
\* from an <output> with a negative external_port_id, such outputs do not
\* advance output_number, and the k-th description emitted (k from 0) carries
\* output_number k.
C9_OutputsNumberedInOrder ==
    \A n \in SubGraphNodes : OutputsNumbered(n[1], n[2])

\* C9 witness: an operator was built from an unconnected <output> followed by
\* a connected one, whose description has output_number 0.
C9_Witness ==
    \E n \in SubGraphNodes :
        LET elems == XmlLayer(n[1].root, n[1].all[n[2]].id).port_map[1].output
            ds == n[1].all[n[2]].output_descriptions
        IN  /\ Len(elems) = 2
            /\ elems[1].external_port_id < 0
            /\ elems[2].external_port_id = 1
            /\ Len(ds) = 1
            /\ ds[1].output_index = 0

----------------------------------------------------------------------------
\* the opset the rule gives a layer
OpsetByRule(layer) ==
    IF /\ layer.type \in experimental_ops_added_to_opset
       /\ layer.version \in {"experimental", "extension"}
    THEN "opset6"
    ELSE IF layer.version = "opset1" /\ layer.type \in {"MVN", "ROIPooling", "ReorgYolo"}
    THEN "opset2"
    ELSE layer.version

\* the operators an opset made, each with the frame that holds it
OpsetNodes ==
    {n \in UNION {{<<f, at>> : at \in DOMAIN f.all} : f \in Frames} :
        n[1].all[n[2]].cls # "FrameworkNode"}

\* C10: a layer's operator is created by opset6 when its type is one of the
\* eight experimental and cell operators and its version is "experimental" or
\* "extension", whether or not that version is registered; by opset2 when
\* its version is "opset1" and its type is MVN, ROIPooling or ReorgYolo; else
\* by the registry entry of its version; and type "Const" is created under
\* the name "Constant".
C10_OpsetByRule ==
    /\ \A n \in OpsetNodes :
          LET node == n[1].all[n[2]]
              layer == XmlLayer(n[1].root, node.id)
          IN  /\ node.opset = OpsetByRule(layer)
              /\ Has(m_opsets, node.opset)
              /\ layer.type = "Const" => node.type = "Constant"
              /\ node.type \in m_opsets[node.opset].ops
    /\ (result.status = "error" /\ result.what = "unsupported opset") =>
          ~Has(m_opsets, OpsetByRule(XmlLayer(Top.root, LayerId(Top))))

\* C10 witness: a GRUCell layer of version "experimental", which no extension
\* registered, was created by opset6.
C10_Witness ==
    \E n \in OpsetNodes :
        LET node == n[1].all[n[2]]
            layer == XmlLayer(n[1].root, node.id)
        IN  /\ layer.type = "GRUCell"
            /\ layer.version = "experimental"
            /\ ~Has(m_opsets, "experimental")
            /\ node.opset = "opset6"

----------------------------------------------------------------------------
\* every node constructed so far, each with the frame that holds it
BuiltNodes == UNION {{<<f, at>> : at \in DOMAIN f.all} : f \in Frames}

\* the layer whose createNode is running or has failed, in the call on top
LayerUnderConstruction == XmlLayer(Top.root, LayerId(Top))

\* C11: a FrameworkNode is constructed for a layer only if the fallback is
\* enabled in the deserializer that creates it and the opset lookup, after
\* the version remappings, found no opset; with the fallback disabled no
\* node is made from an unknown opset, and a layer whose opset is found but
\* lacks its type gets no node even with the fallback enabled: all of these
\* fail the conversion.
C11_FrameworkNodeOnlyAsFallback ==
    /\ \A n \in BuiltNodes :
          LET f == n[1]
              node == f.all[n[2]]
              layer == XmlLayer(f.root, node.id)
              found == Has(m_opsets, OpsetByRule(layer))
          IN  /\ node.cls = "FrameworkNode" => f.m_use_framework_node /\ ~found
              /\ ~f.m_use_framework_node => found
              /\ found => /\ node.cls # "FrameworkNode"
                          /\ node.type \in m_opsets[OpsetByRule(layer)].ops
    /\ Returned => \A id \in Range(stack[1].order) : NodeAt(stack[1], id) # 0

\* C11 witness: with the fallback enabled, a layer of an unknown opset has
\* become a FrameworkNode and the conversion has returned.
C11_Witness ==
    /\ Returned
    /\ \E at \in DOMAIN stack[1].all :
          /\ stack[1].all[at].cls = "FrameworkNode"
          /\ XmlLayer(stack[1].root, stack[1].all[at].id).version = "opset99"

\* C12: when an extension is described as "framework_node_ext", every layer
\* whose opset lookup fails is constructed as a FrameworkNode, in the
\* top-level net and in the <body> of a sub-graph operator at any depth: no
\* such layer fails the conversion.
C12_FallbackAtEveryDepth ==
    UseFrameworkNode(m_exts) =>
        ~(/\ result.status = "error"
          /\ result.what = "unsupported opset"
          /\ ~Has(m_opsets, OpsetByRule(LayerUnderConstruction)))

----------------------------------------------------------------------------
BuiltinNames == {"opset1", "opset2", "opset3", "opset4", "opset5", "opset6", "opset7", "opset8"}

\* the names that the extensions before the j-th one register
NamesBefore(j) == UNION {DOMAIN m_exts[i].opsets : i \in 1..(j - 1)}

\* some extension registers a name that is in the registry when its turn comes
NameClash ==
    \E j \in DOMAIN m_exts : \E name \in DOMAIN m_exts[j].opsets :
        name \in BuiltinNames \cup NamesBefore(j)

\* C13: while the extension opsets are loaded in sequence, a name already in
\* the registry (built-in, or added by an earlier extension) makes convert()
\* fail before any layer is parsed; on success every name of the registry
\* maps to exactly one opset, the one its extension gave, and the built-in
\* entries are unchanged.
C13_OpsetNamesUnique ==
    result.status # "created" =>
        IF NameClash
        THEN result.status = "error" /\ stack = <<>>
        ELSE /\ DOMAIN m_opsets = BuiltinNames \cup NamesBefore(Len(m_exts) + 1)
             /\ \A name \in BuiltinNames : m_opsets[name] = BuiltinOpsets[name]
             /\ \A j \in DOMAIN m_exts : \A name \in DOMAIN m_exts[j].opsets :
                   m_opsets[name] = [origin |-> "extension", ops |-> m_exts[j].opsets[name]]

\* C13 witness: convert() has failed, with no layer parsed, on a name that an
\* earlier extension added.
C13_Witness ==
    /\ result.status = "error"
    /\ stack = <<>>
    /\ \E j \in DOMAIN m_exts : \E name \in DOMAIN m_exts[j].opsets :
          name \in NamesBefore(j) /\ name \notin BuiltinNames

----------------------------------------------------------------------------
\* the nodes whose value buffer was taken from the weights blob
BlobNodes == {n \in BuiltNodes : n[1].all[n[2]].buffer # <<>>}

\* offset + size <= length, with the true sum: it does not pass 2^64
TrueRangeInside(length, data) ==
    /\ AddLimbs(data.offset, data.size, 1, 0, <<>>).carry = 0
    /\ ~SizeLess(length, AddLimbs(data.offset, data.size, 1, 0, <<>>).sum)

\* C14: for every Const whose value buffer is taken from the weights blob,
\* for all unsigned 64-bit offset and size, the bytes [offset, offset + size)
\* lie inside the blob (the non-wrapping sum offset + size is at most the blob
\* length) and the node's buffer is those size bytes; a Const whose range
\* exceeds the blob fails the conversion.
C14_ConstRangeInsideBlob ==
    /\ result.status # "fault"
    /\ \A n \in BlobNodes :
          LET node == n[1].all[n[2]]
              data == XmlLayer(n[1].root, node.id).data[1]
          IN  /\ node.buffer[1] = [offset |-> data.offset, size |-> data.size]
              /\ TrueRangeInside(m_weights, data)

----------------------------------------------------------------------------
\* the constructor of the ocl_device has returned
DeviceBuilt == device.pc = "done"

\* the USM categories whose capability query returns an error code
FailingQueries(dev) == {c \in Range(UsmCategories) : dev.usm[c].err # 0}

\* C15: building the capability record of a device (device info, then memory
\* capabilities) never raises an error: when a USM capability query returns
\* an error code its category is reported as unsupported and a record is
\* still returned.
C15_RecordAlwaysReturned ==
    /\ device.pc # "error"
    /\ DeviceBuilt => device.mem_caps \cap FailingQueries(device.dev) = {}

\* the device info is complete
InfoBuilt == device.pc \in {"info", "done", "error"}

NamedGen12OrXe(dev) ==
    dev.dev_name \in {"Intel(R) Gen12LP HD Graphics", "Intel(R) Iris(R) Xe Graphics"}

ProbeDecided == device.pc \notin {"created", "local_block_io"}

\* C17: supports_local_block_io is true only if the extension
\* cl_intel_subgroup_local_block_io is advertised and the probe kernel built,
\* ran and read back exactly 1, 3, 5, 7, 9, 11, 13, 15; a failed build, an
\* exception at any step or a mismatching byte gives false and no error; the
\* probe is not run at all when the extension is not advertised.
C17_LocalBlockIoOnlyIfProbed ==
    /\ ProbeDecided =>
          LET probe == device.dev.probe
              advertised == "cl_intel_subgroup_local_block_io" \in device.dev.extensions
          IN  /\ device.info.supports_local_block_io =
                    (/\ advertised
                     /\ probe.build = "CL_SUCCESS"
                     /\ probe.throws = ""
                     /\ probe.result = <<1, 3, 5, 7, 9, 11, 13, 15>>)
              /\ device.info.supports_local_block_io => device.kernel_runs = 1
              /\ ~advertised => device.probes = 0 /\ device.kernel_runs = 0
    /\ device.pc = "error" => FailingQueries(device.dev) # {}
    /\ device.pc = "local_block_io" => ENABLED LocalBlockIo

\* C17 witness: the kernel ran and the last byte read back differs: false,
\* and the record was built.
C17_Witness ==
    /\ DeviceBuilt
    /\ device.kernel_runs = 1
    /\ device.dev.probe.result = <<1, 3, 5, 7, 9, 11, 13, 14>>
    /\ ~device.info.supports_local_block_io

----------------------------------------------------------------------------
(* The construction order, read off the XML document                       *)

\* the layers an edge of the document leads from into layer id
Preds(root, id) ==
    {root.edges[x].from_layer : x \in {y \in DOMAIN root.edges : root.edges[y].to_layer = id}}

\* the Result and Assign layers, in document order
RootsOf(root) ==
    LET at == SelectSeq([x \in DOMAIN root.layers |-> x],
                        LAMBDA x : root.layers[x].type \in {"Result", "Assign"})
    IN  [x \in DOMAIN at |-> root.layers[at[x]].id]

\* S with everything that reaches it backward along edges
RECURSIVE Closure(_, _)
Closure(root, S) ==
    LET T == S \cup UNION {Preds(root, id) : id \in S}
    IN  IF T = S THEN S ELSE Closure(root, T)

Reachable(root) == Closure(root, Range(RootsOf(root)))

\* layer id lies on a data cycle (a self loop is one)
OnCycle(root, id) == id \in Closure(root, Preds(root, id))

HasReachableCycle(root) == \E id \in Reachable(root) : OnCycle(root, id)

\* the ids the DFS of a frame has expanded: finished ones, then the open calls
Expanded(f) == f.order \o [x \in DOMAIN f.dfs |-> f.dfs[x].id]

NoRepeat(s) == \A x, y \in DOMAIN s : x # y => s[x] # s[y]

InDfs == Running /\ Top.pc = "dfs"

\* C18: for every layers table and edge table, also with self loops and data
\* cycles among the layers reachable from an output, the DFS that computes the
\* construction order terminates: no layer id is expanded more than once (the
\* expanded ids are the used ones, each once), and a parse_function that is
\* in its DFS leaves it.
C18_DfsTerminates ==
    /\ [](\A f \in Frames : NoRepeat(Expanded(f)) /\ Range(Expanded(f)) = f.used)
    /\ (InDfs ~> ~InDfs)

\* C18 witness: the DFS has finished on a document with a self loop and a
\* cycle between two layers, all reachable from the Result.
C18_Witness ==
    /\ Running
    /\ Top.pc = "nodes"
    /\ OnCycle(Top.root, 2)
    /\ 2 \in Preds(Top.root, 2)
    /\ 3 \in Preds(Top.root, 2)
    /\ {2, 3} \subseteq Reachable(Top.root)
    /\ Len(Top.order) = 3

\* the layers the edges into layer id come from, in document order
PredsInOrder(root, id) ==
    LET es == IncomingEdges(root, id)
    IN  [x \in DOMAIN es |-> es[x].from_layer]

\* A depth-first walk backward along the edges that lists an id when all the
\* edges into it have been followed.  [used, order]
RECURSIVE Visit(_, _, _)
RECURSIVE VisitAll(_, _, _, _)
Visit(root, id, walk) ==
    IF id \in walk.used THEN walk
    ELSE LET after == VisitAll(root, PredsInOrder(root, id), 1,
                               [walk EXCEPT !.used = @ \cup {id}])
         IN  [after EXCEPT !.order = Append(@, id)]

VisitAll(root, ids, j, walk) ==
    IF j > Len(ids) THEN walk
    ELSE VisitAll(root, ids, j + 1, Visit(root, ids[j], walk))

PostOrder(root) == VisitAll(root, RootsOf(root), 1, [used |-> {}, order |-> <<>>]).order

\* the layer ids of the nodes a frame has constructed, in construction order
ConstructedIds(f) == [x \in DOMAIN f.all |-> f.all[x].id]

\* C19: once computed, the construction order holds exactly the ids reachable
\* backward along edges from the Result and Assign layers, each once, in the
\* post-order of the DFS that takes the roots and each layer's incoming edges
\* in document order; the nodes constructed are those of a prefix of the
\* order, one per id, and of the whole order when parse_function returns (a
\* layer without incoming edges is not skipped); a layer that is not
\* reachable is never constructed.
C19_OrderIsReachablePostOrder ==
    \A f \in Frames :
        /\ f.pc \in {"nodes", "done"} =>
              /\ f.order = PostOrder(f.root)
              /\ NoRepeat(f.order)
              /\ Range(f.order) = Reachable(f.root)
        /\ Len(f.all) <= Len(f.order)
        /\ ConstructedIds(f) = SubSeq(f.order, 1, Len(f.all))
        /\ f.pc = "nodes" => Len(f.all) = f.k - 1
        /\ f.pc = "done" => ConstructedIds(f) = f.order
        /\ Range(ConstructedIds(f)) \subseteq Reachable(f.root)

\* C19 witness: a Function was returned for a document whose Parameter is
\* reached along two edges and whose layer 3 is not reached: the nodes are
\* those of 1, 2, 4.
C19_Witness ==
    /\ Returned
    /\ Top.root.layers = DfsLayers
    /\ PredsInOrder(Top.root, 2) = <<1, 1>>
    /\ 3 \notin Reachable(Top.root)
    /\ ConstructedIds(Top) = <<1, 2, 4>>

\* the place of an id in the construction order
PlaceIn(order, id) == CHOOSE x \in DOMAIN order : order[x] = id

\* the first place of the order whose layer has an edge from a layer that
\* stands at that place or after it (there is one when a cycle is reachable)
Blocked(f) ==
    LET late == {x \in DOMAIN f.order :
                    \E id \in Preds(f.root, f.order[x]) :
                        id \in Range(f.order) /\ PlaceIn(f.order, id) >= x}
    IN  CHOOSE x \in late : \A y \in late : x <= y

\* what the loop over the edges of a layer throws
WiringErrors ==
    {"node not in graph", "no input port", "layer is inconsistent", "no output port"}

\* C20: when the layers reachable backward from a Result or Assign contain a
\* data cycle (a self loop included), parse_function never returns a
\* Function: it never constructs the first layer of the order that has a
\* predecessor not yet constructed, the conversion goes on until it stops, and
\* when it stops at that layer it stops with an error of the wiring loop;
\* nor does any frame ever hold a node with an unbound input.
C20_CycleFailsAtWiring ==
    /\ \A f \in Frames :
          /\ HasReachableCycle(f.root) =>
                /\ f.pc # "done"
                /\ f.pc = "nodes" => f.k <= Blocked(f) /\ Len(f.all) < Blocked(f)
          /\ \A at \in DOMAIN f.all : InputsDefined(f.all[at].inputs)
    /\ HasReachableCycle(m_root) => ~Returned
    /\ (Running /\ HasReachableCycle(Top.root)) => ENABLED Next
    /\ (/\ stack # <<>>
        /\ result.status \notin {"running", "created"}
        /\ HasReachableCycle(Top.root)
        /\ Top.pc = "nodes"
        /\ Top.k = Blocked(Top)) =>
            result.status = "error" /\ result.what \in WiringErrors

\* C20 witness: the conversion of a document whose Result is fed by an
\* operator with a self loop has failed on that operator, the Parameter
\* before it constructed: "Attempt to access node ... that not in graph".
C20_Witness ==
    /\ result = [status |-> "error", what |-> "node not in graph"]
    /\ m_root.layers = DfsLayers
    /\ 2 \in Preds(m_root, 2)
    /\ 2 \in Reachable(m_root)
    /\ LayerId(Top) = 2
    /\ ConstructedIds(Top) = <<1>>

----------------------------------------------------------------------------
\* the <port_map>/<input> elements that are not disconnected: with an axis, a
\* matching back-edge or external_port_id >= 0
ConnectedInputElements(xml) ==
    {j \in DOMAIN xml.port_map[1].input :
        KindByPriority(xml, xml.port_map[1].input[j]) # "none"}

ConnectedOutputElements(xml) ==
    {j \in DOMAIN xml.port_map[1].output : xml.port_map[1].output[j].external_port_id >= 0}

\* C21: a sub-graph operator carries one input description for every
\* <port_map>/<input> element that is not disconnected, also when several
\* <input> elements have the same external_port_id, and one output
\* description for every <output> with external_port_id >= 0.
C21_OneDescriptionPerPort ==
    \A n \in SubGraphNodes :
        LET xml == XmlLayer(n[1].root, n[1].all[n[2]].id)
            node == n[1].all[n[2]]
        IN  /\ Len(node.input_descriptions) = Cardinality(ConnectedInputElements(xml))
            /\ Len(node.output_descriptions) = Cardinality(ConnectedOutputElements(xml))

\* a sequence of integers that never descends
Ascending(s) == \A x, y \in DOMAIN s : x < y => s[x] <= s[y]

\* C22: the input descriptions of a sub-graph operator stand in ascending
\* order of external_port_id taken as a signed integer, whatever the document
\* order (a Merged description with external_port_id -1 stands before every
\* description with a non-negative id), and so do the output descriptions:
\* the k-th one is made from the connected <output> with k-1 smaller ids.
C22_DescriptionsAscendSigned ==
    \A n \in SubGraphNodes :
        LET node == n[1].all[n[2]]
            ins == node.input_descriptions
            outs == node.output_descriptions
            elems == XmlLayer(n[1].root, node.id).port_map[1].output
            body == node.body[1]
        IN  /\ Ascending([k \in DOMAIN ins |-> ins[k].input_index])
            /\ \A k \in DOMAIN outs :
                  \E j \in ConnectedOutputs(elems) :
                     /\ Cardinality({i \in ConnectedOutputs(elems) :
                            elems[i].external_port_id < elems[j].external_port_id}) = k - 1
                     /\ outs[k].body_value_index = IndexIn(body.results, elems[j].internal_layer_id)

\* the Loop operators constructed so far from a layer with a <port_map>
LoopNodes == {n \in SubGraphNodes : n[1].all[n[2]].type = "Loop"}

\* the elements of a <port_map> list that carry a purpose
WithPurpose(elems, purpose) == {j \in DOMAIN elems : elems[j].purpose = purpose}

\* C23: for a Loop, when some <port_map>/<input> has the purpose
\* "current_iteration", current_iteration_input_idx is the body-parameter
\* index of such an input's internal layer, and when some <output> has the
\* purpose "execution_condition", body_condition_output_idx is the body-result
\* index of such an output; an index is -1 only when no port carries the
\* purpose, also when port_map entries share an external_port_id.
C23_SpecialBodyPortsFound ==
    \A n \in LoopNodes :
        LET node == n[1].all[n[2]]
            xml == XmlLayer(n[1].root, node.id)
            ins == xml.port_map[1].input
            outs == xml.port_map[1].output
            body == node.body[1]
            ports == node.special_body_ports[1]
        IN  /\ WithPurpose(ins, "current_iteration") # {} =>
                  \E j \in WithPurpose(ins, "current_iteration") :
                     ports.current_iteration_input_idx =
                        IndexIn(body.parameters, ins[j].internal_layer_id)
            /\ WithPurpose(outs, "execution_condition") # {} =>
                  \E j \in WithPurpose(outs, "execution_condition") :
                     ports.body_condition_output_idx =
                        IndexIn(body.results, outs[j].internal_layer_id)
            /\ WithPurpose(ins, "current_iteration") = {} =>
                  ports.current_iteration_input_idx = -1
            /\ WithPurpose(outs, "execution_condition") = {} =>
                  ports.body_condition_output_idx = -1

----------------------------------------------------------------------------
\* the index of a body layer in the body Function's parameter or result list
\* (ids), or the sentinel when the body did not construct the layer
IndexOrSentinel(ids, id) ==
    IF \E x \in DOMAIN ids : ids[x] = id THEN IndexIn(ids, id) ELSE Unconnected

\* every description of the operator carries the indices of its body layers
IndicesAreBodyPositions(f, at) ==
    LET node == f.all[at]
        xml == XmlLayer(f.root, node.id)
        ins == xml.port_map[1].input
        outs == xml.port_map[1].output
        body == node.body[1]
    IN  /\ \A k \in DOMAIN node.input_descriptions :
              LET d == node.input_descriptions[k]
              IN  \E j \in Processed(ins) :
                     /\ ins[j].external_port_id = d.input_index
                     /\ d.body_parameter_index =
                           IndexOrSentinel(body.parameters, ins[j].internal_layer_id)
                     /\ d.kind = "Merged" =>
                           \E b \in MatchingBackEdges(xml, ins[j]) :
                              d.body_value_index =
                                 IndexOrSentinel(body.results, xml.back_edges[b].from_layer)
        /\ \A k \in DOMAIN node.output_descriptions :
              \E j \in ConnectedOutputs(outs) :
                 /\ Cardinality({i \in ConnectedOutputs(outs) :
                        outs[i].external_port_id < outs[j].external_port_id}) = k - 1
                 /\ node.output_descriptions[k].body_value_index =
                       IndexOrSentinel(body.results, outs[j].internal_layer_id)

\* C24 as stated: for every description of a sub-graph operator the body
\* parameter/result index is the position of the node built from its
\* internal layer in the body Function's list when the body constructed that
\* layer, and the sentinel only when it did not - whether the operator visits
\* its descriptions after or before its "body".
C24_IndicesAreBodyPositions ==
    \A n \in SubGraphNodes : IndicesAreBodyPositions(n[1], n[2])

\* C24 amended: the same for an operator that visits "body" before its
\* descriptions; the descriptions of an operator that visits them before its
\* "body" carry the sentinel for every body layer.
C24_IndicesAreBodyPositionsBodyFirst ==
    \A n \in SubGraphNodes :
        LET node == n[1].all[n[2]]
        IN  IF visit_order = "body_first"
            THEN IndicesAreBodyPositions(n[1], n[2])
            ELSE /\ \A k \in DOMAIN node.input_descriptions :
                       /\ node.input_descriptions[k].body_parameter_index = Unconnected
                       /\ node.input_descriptions[k].kind = "Merged" =>
                             node.input_descriptions[k].body_value_index = Unconnected
                 /\ \A k \in DOMAIN node.output_descriptions :
                       node.output_descriptions[k].body_value_index = Unconnected

\* C24 witness: an operator that visits its body first was built with a
\* description of body Parameter 1 (index 0) and one of body Parameter 2,
\* which its body does not reach (the sentinel).
C24_Witness ==
    /\ parser = [pc |-> "none"]
    /\ visit_order = "body_first"
    /\ \E n \in SubGraphNodes :
          LET node == n[1].all[n[2]]
          IN  /\ node.body[1].parameters = <<1>>
              /\ Len(node.input_descriptions) = 2
              /\ node.input_descriptions[1].body_parameter_index = 0
              /\ node.input_descriptions[2].body_parameter_index = Unconnected

----------------------------------------------------------------------------
\* the comma-split of a string: its elements between the commas, empty ones
\* included
RECURSIVE CommaSplit(_)
CommaSplit(param) ==
    LET stop == Delimiter(param, 1)
    IN  IF stop > Len(param) THEN <<param>>
        ELSE <<SubSeq(param, 1, stop - 1)>> \o CommaSplit(SubSeq(param, stop + 1, Len(param)))

VectorParsed == parser.pc \in {"done", "error"} /\ parser.T = "int"

\* C25: parsing a vector-of-scalar attribute fails whenever its comma-split
\* has an empty element - leading, in the middle or trailing - and otherwise
\* yields one parsed value per element, in order.
C25_EmptyElementIsFatal ==
    VectorParsed =>
        LET elements == CommaSplit(parser.param)
        IN  IF \E k \in DOMAIN elements : elements[k] = <<>>
            THEN parser.pc = "error"
            ELSE /\ parser.pc = "done"
                 /\ parser.value = [k \in DOMAIN elements |-> ReadNumber(elements[k], 0)]

NamesParsed == parser.pc \in {"done", "error", "fault"} /\ parser.T = "names"

\* C26: for every list of tensor names, each with any number of literal
\* commas, parsing the names attribute written as the names joined by ','
\* with each literal comma written '\,' yields exactly the set of the names.
C26_NamesRoundTrip ==
    NamesParsed => parser.pc = "done" /\ parser.names = Range(parser.original)

----------------------------------------------------------------------------
(* C27: the PCI device id fallback                                         *)

\* the positions of the listed display devices whose vendor is 0x8086 and
\* whose id is not reserved
Eligible(displays) ==
    {i \in 1..Len(displays) :
        displays[i].vendor = 32902 /\ displays[i].id \notin {18693, 18694, 18695, 18696}}

\* the id of the last such device, or 0 when there is none
LastEligibleId(displays) ==
    IF Eligible(displays) = {} THEN 0
    ELSE displays[CHOOSE i \in Eligible(displays) : \A j \in Eligible(displays) : j <= i].id

\* C27: for any sequence of listed display devices the device id fallback
\* returns the id of the last listed device whose vendor is 0x8086 and whose
\* id is not one of 0x4905..0x4908, or 0 when there is no such device; it
\* never returns a reserved id; and the device info reports it as device_id
\* exactly when cl_intel_device_attribute_query is not advertised, the
\* queried CL_DEVICE_ID_INTEL being reported otherwise.
C27_FallbackIsLastEligibleId ==
    /\ device.pc # "none" =>
          /\ driver_dev_id(device.dev) = LastEligibleId(device.dev.displays)
          /\ driver_dev_id(device.dev) \notin {18693, 18694, 18695, 18696}
    /\ InfoBuilt =>
          device.info.device_id =
              IF "cl_intel_device_attribute_query" \in device.dev.extensions
              THEN device.dev.device_id
              ELSE LastEligibleId(device.dev.displays)

\* the query is not advertised, the last Intel device listed has a reserved
\* id, and the id of the one before it is reported
C27_Witness ==
    /\ InfoBuilt
    /\ "cl_intel_device_attribute_query" \notin device.dev.extensions
    /\ device.dev.displays = <<IntelDisplay(39488), IntelDisplay(18696)>>
    /\ device.info.device_id = 39488

----------------------------------------------------------------------------
(* C28: the parameters and results lists of a returned Function            *)

\* the layer ids of a document in the order of its <layer> elements
DocumentIds(root) == [x \in DOMAIN root.layers |-> root.layers[x].id]

DistinctLayerIds(root) == NoRepeat(DocumentIds(root))

\* no edge of the document leads from a Result layer
NoEdgeLeavesResult(root) ==
    \A x \in DOMAIN root.edges : \A y \in DOMAIN root.layers :
        root.layers[y].id = root.edges[x].from_layer => root.layers[y].type # "Result"

\* the ids of the constructed nodes of a class
IdsOfClass(f, cls) == {f.all[x].id : x \in {y \in DOMAIN f.all : f.all[y].cls = cls}}

\* C28: in a returned Function whose document has distinct layer ids and no
\* edge leaving a Result layer, the results list holds the Result nodes in
\* the document order of their <layer> elements and the parameters list holds
\* the constructed (reachable) Parameter nodes in the order in which the
\* backward DFS from the outputs first completes them; no Parameter or
\* Result appears twice in either list.
C28_ResultsInDocumentOrder ==
    \A f \in Frames :
        (f.pc = "done" /\ DistinctLayerIds(f.root) /\ NoEdgeLeavesResult(f.root)) =>
            /\ FunctionOf(f).results =
                  SelectSeq(DocumentIds(f.root), LAMBDA id : id \in IdsOfClass(f, "Result"))
            /\ FunctionOf(f).parameters =
                  SelectSeq(PostOrder(f.root), LAMBDA id : id \in IdsOfClass(f, "Parameter"))
            /\ IdsOfClass(f, "Parameter") \subseteq Reachable(f.root)
            /\ NoRepeat(FunctionOf(f).results)
            /\ NoRepeat(FunctionOf(f).parameters)

\* C28 witness: a Function was returned for a document that lists its layers
\* as b, s, a, c, r and feeds s from a: the results are s, r in document
\* order (not the order of their ids) and the parameters are a, b as the DFS
\* from s completes them, while the document lists b before a.
C28_Witness ==
    /\ Returned
    /\ DocumentIds(Top.root) = <<2, 5, 1, 3, 4>>
    /\ NoEdgeLeavesResult(Top.root)
    /\ Top.root.edges[1] = Edge(1, 0, 5, 0)
    /\ FunctionOf(Top).results = <<5, 4>>
    /\ FunctionOf(Top).parameters = <<1, 2>>

====
